---- MODULE Spec2Model ----
(***************************************************************************)
(* Story lifecycle and visibility engine of SocialMediaStories.            *)
(*                                                                         *)
(* The relational store is modelled by the variables stories, highlights,  *)
(* reactions, comments and responses, the object store by objects.  Every  *)
(* request handler is one action that reads the store, decides as the      *)
(* handler's code decides and commits; a handler that returns before its   *)
(* commit leaves the store alone (its session is closed, which rolls the   *)
(* pending writes back).  Time is counted in days.                         *)
(***************************************************************************)
EXTENDS Integers, Sequences, FiniteSets, TLC

\* ------------------------------------------------------------------ bounds
SweepMaxStories == 1   \* stories posted in a behaviour of SpecSweep
SweepMaxTicks == 2     \* clock advances in a behaviour of SpecSweep
HlMaxStories == 2      \* stories posted in a behaviour of SpecHighlights
HlMaxRows == 2         \* highlight rows ever inserted in a behaviour of SpecHighlights
HlMaxTicks == 1        \* clock advances in a behaviour of SpecHighlights
TermMaxStories == 1    \* stories posted in a behaviour of SpecTerminal
TermMaxTicks == 2      \* clock advances in a behaviour of SpecTerminal
ViewMaxStories == 1    \* stories posted in a behaviour of SpecView
ViewMaxTicks == 1      \* clock advances in a behaviour of SpecView
IntMaxStories == 1     \* stories posted in a behaviour of SpecInteract
IntMaxComments == 1    \* comments posted in a behaviour of SpecInteract
LedgerMaxStories == 1  \* stories posted in a behaviour of SpecLedger
RestMaxStories == 1    \* stories posted in a behaviour of SpecRestore
RestMaxTicks == 2      \* clock advances in a behaviour of SpecRestore
OwnMaxStories == 2     \* stories posted in a behaviour of SpecOwnership
OwnMaxRows == 2        \* highlight rows ever inserted in a behaviour of SpecOwnership
AtomMaxStories == 1    \* stories posted in a behaviour of SpecAtomic
AtomMaxTicks == 1      \* clock advances in a behaviour of SpecAtomic
AtomMaxRows == 2       \* highlight rows ever inserted in a behaviour of SpecAtomic
RemMaxStories == 3     \* stories posted in a behaviour of SpecRemove
RemMaxRows == 3        \* highlight rows ever inserted in a behaviour of SpecRemove
RemMaxTicks == 1       \* clock advances in a behaviour of SpecRemove
FeedMaxStories == 2    \* stories posted in a behaviour of SpecFeed
FeedMaxTicks == 1
HidMaxStories == 1
HidMaxRows == 1
HidMaxTicks == 1
RaceMaxStories == 3
RaceMaxRows == 3
RenMaxStories == 2
RenMaxRows == 2
FoldMaxStories == 2
FoldMaxRows == 2
FoldMaxTicks == 1
FlagMaxStories == 2
FlagMaxRows == 2
FlagMaxTicks == 1
PromoMaxStories == 2
PromoMaxRows == 2
PromoMaxTicks == 1
PurgeMaxStories == 1
PurgeMaxTicks == 2
PermMaxStories == 1
PermMaxTicks == 2
ExpMaxStories == 1
ExpMaxTicks == 2
PageMaxStories == 2
PageMaxTicks == 1
UnseenMaxStories == 2
UnseenMaxTicks == 1      \* clock advances in a behaviour of SpecFeed

\* ------------------------------------------------------- program constants
RetentionDays == 30    \* timedelta(days=30), the soft-delete window
LifetimeDays == 1      \* timedelta(hours=24), a story's lifetime
BackdateDays == 1      \* timedelta(days=1), how far a delete moves expires_at back

Users == {1, 2}
Privacies == {"public", "private", "close friends"}
TickSteps == {LifetimeDays, RetentionDays - 1}

Null == <<>>
Some(x) == <<x>>

\* request slots: the requests in flight at one time
Slots == {1, 2}
\* a slot with no request in flight
Idle == [op |-> "idle", owner |-> 0, viewer |-> 0, seen |-> <<>>]

\* Object-store keys of a story's media (s3_key) and thumbnail (thumbnail_key)
MediaKey(sid) == <<"stories", sid>>
ThumbKey(sid) == <<"story_thumbnails", sid>>
CoverKey(k) == <<"cover_images", k>>

VARIABLES
    now,          \* datetime.now(timezone.utc), in days
    ticks,        \* number of clock advances so far
    users,        \* users_ rows: id -> [auto_archive_stories]
    stories,      \* stories rows: id -> row; a purged row is out of the domain
    nextStory,    \* ids are fresh (uuid4): the next id never used before
    highlights,   \* highlights rows, a set of records
    nextHl,       \* highlight ids are fresh (uuid4) too
    objects,      \* keys present in the object store
    followers,    \* followers rows [follower_id, following_id, status, blocked]
    close_friends, \* close_friends rows <<user_id, close_friend_id>>
    reactions,    \* stories_reactions rows [story_id, user_id, reaction_type]
    comments,     \* story_comments rows [story_id, user_id, text], oldest first
    responses,    \* sticker_responses rows [story_id, type, user_id, selected_option]
    sessions,     \* the open session of every request slot
    last          \* the last request and its response

vars == <<now, ticks, users, stories, nextStory, highlights, nextHl, objects,
          followers, close_friends, reactions, comments, responses, sessions, last>>

Resp(op, actor, target, status, tag) ==
    [op |-> op, actor |-> actor, target |-> target, status |-> status,
     tag |-> tag, fails |-> {}, returned |-> {}, feed |-> <<>>,
     cursor |-> Null, next_cursor |-> Null]

\* ------------------------------------------------------------ derived state
Exists(sid) == sid \in DOMAIN stories
Issued == 1..(nextStory - 1)
Purged(sid) == sid \in Issued /\ ~Exists(sid)

DropStory(S, sid) == [i \in (DOMAIN S) \ {sid} |-> S[i]]
DropStories(S, gone) == [i \in (DOMAIN S) \ gone |-> S[i]]

\* now - deleted_at < timedelta(days=30)
InRetention(st, t) == st.deleted_at # Null /\ (t - st.deleted_at[1]) < RetentionDays

\* ------------------------------------------------------------------- clock
Tick(d) ==
    /\ now' = now + d
    /\ ticks' = ticks + 1
    /\ last' = Resp("tick", 0, 0, 0, "none")
    /\ UNCHANGED <<users, stories, nextStory, highlights, nextHl, objects>>
    /\ UNCHANGED <<followers, close_friends, reactions, comments, responses, sessions>>

\* ----------------------------------------------------------- confirm_story
\* poll and quiz: the number of options of the story's poll and quiz sticker,
\* 0 for a story without one
NewStory(u, privacy, poll, quiz, t) ==
    [user_id |-> u, privacy |-> privacy, archive |-> FALSE, highlight |-> FALSE,
     deleted_at |-> Null, created_at |-> t, expires_at |-> t + LifetimeDays,
     viewers |-> <<>>, poll |-> poll, quiz |-> quiz]

confirm_story(u, privacy, poll, quiz) ==
    /\ stories' = (nextStory :> NewStory(u, privacy, poll, quiz, now)) @@ stories
    /\ nextStory' = nextStory + 1
    /\ objects' = objects \cup {MediaKey(nextStory), ThumbKey(nextStory)}
    /\ last' = Resp("confirm_story", u, nextStory, 201, "ok")
    /\ UNCHANGED <<now, ticks, users, highlights, nextHl>>
    /\ UNCHANGED <<followers, close_friends, reactions, comments, responses, sessions>>

\* ------------------------------------------------------------ delete_story
\* mutant: the soft delete leaves expires_at alone
SoftDeletedKeepsExpiry(st, t) == [st EXCEPT !.deleted_at = Some(t)]

SoftDeleted(st, t) == [st EXCEPT !.expires_at = t - BackdateDays, !.deleted_at = Some(t)]

delete_story(u, sid) ==
    /\ IF ~Exists(sid)
         THEN /\ last' = Resp("delete_story", u, sid, 404, "not_found")
              /\ UNCHANGED stories
         ELSE IF stories[sid].user_id # u
         THEN /\ last' = Resp("delete_story", u, sid, 403, "forbidden")
              /\ UNCHANGED stories
         ELSE /\ stories' = [stories EXCEPT ![sid] = SoftDeleted(@, now)]
              /\ last' = Resp("delete_story", u, sid, 200, "ok")
    /\ UNCHANGED <<now, ticks, users, nextStory, highlights, nextHl, objects>>
    /\ UNCHANGED <<followers, close_friends, reactions, comments, responses, sessions>>

\* ----------------------------------------------------------- archive_story
archive_story(u, sid) ==
    /\ IF ~Exists(sid) \/ (Exists(sid) /\ stories[sid].archive)
         THEN /\ last' = Resp("archive_story", u, sid, 400, "not_found")
              /\ UNCHANGED stories
         ELSE IF stories[sid].user_id # u
         THEN /\ last' = Resp("archive_story", u, sid, 400, "forbidden")
              /\ UNCHANGED stories
         ELSE /\ stories' = [stories EXCEPT ![sid].archive = TRUE]
              /\ last' = Resp("archive_story", u, sid, 200, "ok")
    /\ UNCHANGED <<now, ticks, users, nextStory, highlights, nextHl, objects>>
    /\ UNCHANGED <<followers, close_friends, reactions, comments, responses, sessions>>

\* --------------------------------------- restore_story_from_recently_deleted
\* mutant: the lifetime restarts at the restore
RestoredFromNow(st) == [st EXCEPT !.deleted_at = Null, !.expires_at = now + LifetimeDays]

Restored(st) == [st EXCEPT !.deleted_at = Null, !.expires_at = st.created_at + LifetimeDays]

restore_story_from_recently_deleted(u, sid) ==
    /\ IF ~Exists(sid) \/ (Exists(sid) /\ stories[sid].deleted_at = Null)
         THEN /\ last' = Resp("restore_story", u, sid, 400, "not_found")
              /\ UNCHANGED stories
         ELSE IF stories[sid].user_id # u
         THEN /\ last' = Resp("restore_story", u, sid, 400, "forbidden")
              /\ UNCHANGED stories
         ELSE /\ stories' = [stories EXCEPT ![sid] = Restored(@)]
              /\ last' = Resp("restore_story", u, sid, 200, "ok")
    /\ UNCHANGED <<now, ticks, users, nextStory, highlights, nextHl, objects>>
    /\ UNCHANGED <<followers, close_friends, reactions, comments, responses, sessions>>

\* -------------------------------------------------------------- run_cleanup
\* The stories the sweep's query selects: expires_at <= now, archive == False
SweepSelected(S, t) == {i \in DOMAIN S : S[i].expires_at <= t /\ ~S[i].archive}

\* mutant: the retention test lets a story deleted exactly 30 days ago stay
SweepDecisionLateWindow(st, owner, t) ==
    IF owner.auto_archive_stories THEN "archive"
    ELSE IF st.deleted_at # Null /\ (t - st.deleted_at[1]) <= RetentionDays THEN "keep"
    ELSE IF st.highlight THEN "keep"
    ELSE "purge"

\* mutant: step 3, the highlight guard, is missing
SweepDecisionNoHighlight(st, owner, t) ==
    IF owner.auto_archive_stories THEN "archive"
    ELSE IF InRetention(st, t) THEN "keep"
    ELSE "purge"

\* What the loop body does with one selected story, steps 1-3 and the fall-through
SweepDecision(st, owner, t) ==
    IF owner.auto_archive_stories THEN "archive"
    ELSE IF InRetention(st, t) THEN "keep"
    ELSE IF st.highlight THEN "keep"
    ELSE "purge"

SweepSet(S, U, t, what) ==
    {i \in SweepSelected(S, t) : SweepDecision(S[i], U[S[i].user_id], t) = what}

\* delete_object(s3_key); delete_object(thumbnail_key) inside one try: the keys
\* that are gone afterwards when the deletions of the keys in fails raise
MediaDeleted(sid, fails) ==
    IF MediaKey(sid) \in fails THEN {}
    ELSE IF ThumbKey(sid) \in fails THEN {MediaKey(sid)}
    ELSE {MediaKey(sid), ThumbKey(sid)}

\* mutant: only the first deletion is inside the try block
MediaDeletionOkMediaOnly(sid, fails) == MediaKey(sid) \notin fails

\* whether the try block ended without an exception
MediaDeletionOk(sid, fails) == MediaKey(sid) \notin fails /\ ThumbKey(sid) \notin fails

\* The rows s.delete(story) removes: reached only when the try block passed
SweepRemoved(S, U, t, fails) ==
    {i \in SweepSet(S, U, t, "purge") : MediaDeletionOk(i, fails)}

\* mutant: step 3 unmarks the highlighted story it skips
SweepStoriesUnmark(S, U, t, fails) ==
    [i \in (DOMAIN S) \ SweepRemoved(S, U, t, fails) |->
        IF i \in SweepSet(S, U, t, "archive") THEN [S[i] EXCEPT !.archive = TRUE]
        ELSE IF i \in SweepSet(S, U, t, "keep") THEN [S[i] EXCEPT !.highlight = FALSE]
        ELSE S[i]]

SweepStories(S, U, t, fails) ==
    [i \in (DOMAIN S) \ SweepRemoved(S, U, t, fails) |->
        IF i \in SweepSet(S, U, t, "archive") THEN [S[i] EXCEPT !.archive = TRUE] ELSE S[i]]

SweepObjects(O, S, U, t, fails) ==
    O \ UNION {MediaDeleted(i, fails) : i \in SweepSet(S, U, t, "purge")}

\* Story.highlights is cascade="all, delete-orphan": deleting a story deletes its rows
CascadeHighlights(H, gone) == {h \in H : h.story_id \notin gone}

\* Story.reactions and Story.comments cascade too (ondelete="CASCADE")
CascadeReactions(R, gone) == {r \in R : r.story_id \notin gone}
CascadeComments(C, gone) ==
    LET Kept(c) == c.story_id \notin gone IN SelectSeq(C, Kept)

PurgeKeys(S, U, t) ==
    UNION {{MediaKey(i), ThumbKey(i)} : i \in SweepSet(S, U, t, "purge")}

run_cleanup(fails) ==
    /\ stories' = SweepStories(stories, users, now, fails)
    /\ objects' = SweepObjects(objects, stories, users, now, fails)
    /\ highlights' = CascadeHighlights(highlights, SweepRemoved(stories, users, now, fails))
    /\ last' = [Resp("run_cleanup", 0, 0, 0, "none") EXCEPT !.fails = fails]
    /\ UNCHANGED <<now, ticks, users, nextStory, nextHl>>
    /\ reactions' = CascadeReactions(reactions, SweepRemoved(stories, users, now, fails))
    /\ comments' = CascadeComments(comments, SweepRemoved(stories, users, now, fails))
    /\ UNCHANGED <<followers, close_friends, responses, sessions>>

\* ------------------------------------------- cover upload (client PUT / copy)
upload_default_cover_image(u, k) ==
    /\ CoverKey(k) \notin objects
    /\ objects' = objects \cup {CoverKey(k)}
    /\ last' = Resp("upload_default_cover_image", u, 0, 201, "ok")
    /\ UNCHANGED <<now, ticks, users, stories, nextStory, highlights, nextHl>>
    /\ UNCHANGED <<followers, close_friends, reactions, comments, responses, sessions>>

\* ---------------------------------------------------------- highlight rows
OwnerOf(h) == stories[h.story_id].user_id

\* Highlight JOIN Story WHERE Story.user_id == u AND Highlight.name == name
FolderRows(u, name) == {h \in highlights : OwnerOf(h) = u /\ h.name = name}

NewHighlight(id, sid, name, cover, ord) ==
    [id |-> id, story_id |-> sid, name |-> name, cover_image_key |-> cover,
     order |-> ord, archive |-> FALSE]

\* ------------------------------------------------------- create_highlight
\* keys: the stories' s3 keys in request order (a key names one story).  The loop
\* stops at the first key whose story is missing or not the user's
\* (story.highlight on None raises) or is already highlighted, also by an
\* earlier key of this request (the session returns the same object).
KeyMissing(u, keys, k) == ~Exists(keys[k]) \/ (Exists(keys[k]) /\ stories[keys[k]].user_id # u)
KeyHighlighted(u, keys, k) ==
    /\ ~KeyMissing(u, keys, k)
    /\ (stories[keys[k]].highlight \/ \E j \in 1..(k - 1) : keys[j] = keys[k])
FirstBad(u, keys) ==
    LET bad == {k \in 1..Len(keys) : KeyMissing(u, keys, k) \/ KeyHighlighted(u, keys, k)}
    IN IF bad = {} THEN 0 ELSE CHOOSE k \in bad : \A j \in bad : k <= j

create_highlight(u, name, cover, keys) ==
    /\ Len(keys) > 0
    /\ IF CoverKey(cover) \notin objects
         THEN /\ last' = Resp("create_highlight", u, 0, 400, "validation")
              /\ UNCHANGED <<stories, highlights, nextHl>>
         ELSE IF FolderRows(u, name) # {}
         THEN /\ last' = Resp("create_highlight", u, 0, 400, "exists")
              /\ UNCHANGED <<stories, highlights, nextHl>>
         ELSE IF FirstBad(u, keys) # 0
         THEN /\ last' = IF KeyMissing(u, keys, FirstBad(u, keys))
                           THEN Resp("create_highlight", u, keys[FirstBad(u, keys)], 500, "internal")
                           ELSE Resp("create_highlight", u, keys[FirstBad(u, keys)], 400, "already_highlight")
              /\ UNCHANGED <<stories, highlights, nextHl>>
         ELSE /\ stories' = [i \in DOMAIN stories |->
                    IF \E k \in 1..Len(keys) : keys[k] = i
                      THEN [stories[i] EXCEPT !.highlight = ~stories[i].highlight]
                      ELSE stories[i]]
              /\ highlights' = highlights \cup
                    {NewHighlight(nextHl + k - 1, keys[k], name, cover, k) : k \in 1..Len(keys)}
              /\ nextHl' = nextHl + Len(keys)
              /\ last' = Resp("create_highlight", u, 0, 201, "ok")
    /\ UNCHANGED <<now, ticks, users, nextStory, objects>>
    /\ UNCHANGED <<followers, close_friends, reactions, comments, responses, sessions>>

\* ------------------------------------------------------ add_to_highlights
\* the folder's unarchived row of highest order (order_by(desc(order)).first())
ExistingMax(u, name) ==
    LET rows == {h \in FolderRows(u, name) : ~h.archive}
    IN IF rows = {} THEN 0
       ELSE (CHOOSE h \in rows : \A g \in rows : g.order <= h.order).order

add_to_highlights(u, sid, name, cover) ==
    /\ IF ~Exists(sid) \/ (Exists(sid) /\ stories[sid].user_id # u)
         THEN /\ last' = Resp("add_to_highlights", u, sid, 404, "not_found")
              /\ UNCHANGED <<stories, highlights, nextHl>>
         ELSE IF stories[sid].highlight
         THEN /\ last' = Resp("add_to_highlights", u, sid, 400, "already_highlight")
              /\ UNCHANGED <<stories, highlights, nextHl>>
         ELSE IF {h \in FolderRows(u, name) : ~h.archive} = {}
         THEN /\ last' = Resp("add_to_highlights", u, sid, 400, "no_folder")
              /\ UNCHANGED <<stories, highlights, nextHl>>
         ELSE /\ stories' = [stories EXCEPT ![sid].highlight = ~stories[sid].highlight]
              /\ highlights' = highlights \cup
                    {NewHighlight(nextHl, sid, name, cover, ExistingMax(u, name) + 1)}
              /\ nextHl' = nextHl + 1
              /\ last' = Resp("add_to_highlights", u, sid, 201, "ok")
    /\ UNCHANGED <<now, ticks, users, nextStory, objects>>
    /\ UNCHANGED <<followers, close_friends, reactions, comments, responses, sessions>>

\* ---------------------------------------------- demotion out of a highlight
\* What the removal handlers do with the story of a removed row

\* mutant: the soft-delete window is not consulted
DemoteNoWindow(st, t) == IF st.expires_at > t \/ st.archive THEN "unmark" ELSE "purge"

Demote(st, t) ==
    IF st.expires_at > t \/ st.archive THEN "unmark"
    ELSE IF InRetention(st, t) THEN "unmark"
    ELSE "purge"

\* rows of the same name and cover, of any owner, behind row h: the handlers'
\* post_highlights query has no owner filter
PostHighlights(h) ==
    {g \in highlights : g.name = h.name /\ g.cover_image_key = h.cover_image_key
                        /\ g.order > h.order}

\* mutant: every other row of the name and cover moves up
RenumberedAll(H, h) ==
    {IF g.name = h.name /\ g.cover_image_key = h.cover_image_key /\ g.order # h.order
       THEN [g EXCEPT !.order = g.order - 1] ELSE g : g \in H}

\* for h in post_highlights: h.order = h.order - 1
Renumbered(H, h) ==
    {IF g \in PostHighlights(h) THEN [g EXCEPT !.order = g.order - 1] ELSE g : g \in H}

\* .first() of the rows that reference a story
RowsOfStory(sid) == {h \in highlights : h.story_id = sid}
FirstRow(rows) == CHOOSE h \in rows : \A g \in rows : h.id <= g.id

\* ------------------------------------------- remove_story_from_highlights
remove_story_from_highlights(u, sid, fails) ==
    /\ IF ~Exists(sid)
         THEN /\ last' = Resp("remove_story_from_highlights", u, sid, 404, "not_found")
              /\ UNCHANGED <<stories, highlights, objects>>
         ELSE IF stories[sid].user_id # u
         THEN /\ last' = Resp("remove_story_from_highlights", u, sid, 400, "forbidden")
              /\ UNCHANGED <<stories, highlights, objects>>
         ELSE IF ~stories[sid].highlight
         THEN /\ last' = Resp("remove_story_from_highlights", u, sid, 404, "not_in_highlights")
              /\ UNCHANGED <<stories, highlights, objects>>
         ELSE IF RowsOfStory(sid) = {}
         THEN \* highlight_to_delete.name on None raises
              /\ last' = Resp("remove_story_from_highlights", u, sid, 500, "internal")
              /\ UNCHANGED <<stories, highlights, objects>>
         ELSE LET h == FirstRow(RowsOfStory(sid))
                  count == Cardinality({g \in highlights : g.name = h.name})
              IN IF count = 1 /\ CoverKey(h.cover_image_key) \in fails
                   THEN /\ last' = [Resp("remove_story_from_highlights", u, sid, 502, "upstream")
                                      EXCEPT !.fails = fails]
                        /\ UNCHANGED <<stories, highlights, objects>>
                   ELSE /\ objects' = IF count = 1 THEN objects \ {CoverKey(h.cover_image_key)}
                                      ELSE objects
                        /\ stories' = [stories EXCEPT ![sid].highlight = ~stories[sid].highlight]
                        /\ highlights' = Renumbered(highlights, h) \ {h}
                        /\ last' = [Resp("remove_story_from_highlights", u, sid, 200, "ok")
                                      EXCEPT !.fails = fails]
    /\ UNCHANGED <<now, ticks, users, nextStory, nextHl>>
    /\ UNCHANGED <<followers, close_friends, reactions, comments, responses, sessions>>

\* --------------------------------------- remove_highlight_from_highlights
\* After the commit the handler deletes the cover image when no row of that name
\* and cover is left; a failure there answers 502 with the rows already committed.
remove_highlight_from_highlights(u, hid, fails) ==
    /\ IF {h \in highlights : h.id = hid /\ OwnerOf(h) = u} = {}
         THEN /\ last' = Resp("remove_highlight_from_highlights", u, hid, 400, "not_found")
              /\ UNCHANGED <<stories, highlights, objects, reactions, comments>>
         ELSE LET h == CHOOSE g \in highlights : g.id = hid
                  sid == h.story_id
                  purge == Demote(stories[sid], now) = "purge"
                  left == CascadeHighlights(Renumbered(highlights, h) \ {h},
                                            IF purge THEN {sid} ELSE {})
                  coverLeft == {g \in left : g.name = h.name
                                             /\ g.cover_image_key = h.cover_image_key}
              IN IF purge /\ ~MediaDeletionOk(sid, fails)
                   THEN /\ objects' = objects \ MediaDeleted(sid, fails)
                        /\ last' = [Resp("remove_highlight_from_highlights", u, hid, 502, "upstream")
                                      EXCEPT !.fails = fails]
                        /\ UNCHANGED <<stories, highlights, reactions, comments>>
                   ELSE /\ stories' = IF purge THEN DropStory(stories, sid)
                                      ELSE [stories EXCEPT ![sid].highlight = FALSE]
                        /\ highlights' = left
                        /\ reactions' = CascadeReactions(reactions, IF purge THEN {sid} ELSE {})
                        /\ comments' = CascadeComments(comments, IF purge THEN {sid} ELSE {})
                        /\ objects' = (objects \ (IF purge THEN MediaDeleted(sid, fails) ELSE {}))
                                        \ (IF coverLeft = {} /\ CoverKey(h.cover_image_key) \notin fails
                                             THEN {CoverKey(h.cover_image_key)} ELSE {})
                        /\ last' = [(IF coverLeft = {} /\ CoverKey(h.cover_image_key) \in fails
                                       THEN Resp("remove_highlight_from_highlights", u, hid, 502, "upstream")
                                       ELSE Resp("remove_highlight_from_highlights", u, hid, 200, "ok"))
                                      EXCEPT !.fails = fails]
    /\ UNCHANGED <<now, ticks, users, nextStory, nextHl>>
    /\ UNCHANGED <<followers, close_friends, responses, sessions>>

\* ---------------------------------------------------- edit_highlight_folder
\* The handler works in one session with autoflush off: its queries see the
\* committed rows (highlights), its writes are pending in the session until
\* the commit.  A session is [S: the story objects, H: the highlight objects,
\* O: the object store, nh: the next row id, i: the order counter,
\* gone: stories marked for deletion, status, tag, commit].

\* mutant: the rename also resets the order of the rows it rewrites
EditStartResetsOrder(name, cover, old_name, old_cover) ==
    [S |-> stories,
     H |-> {IF h.name = old_name /\ h.cover_image_key = old_cover
              THEN [h EXCEPT !.name = name, !.cover_image_key = cover, !.order = 1]
              ELSE h : h \in highlights},
     O |-> objects, nh |-> nextHl, i |-> 1, gone |-> {},
     status |-> 0, tag |-> "ok", commit |-> FALSE]

EditStart(name, cover, old_name, old_cover) ==
    [S |-> stories,
     H |-> {IF h.name = old_name /\ h.cover_image_key = old_cover
              THEN [h EXCEPT !.name = name, !.cover_image_key = cover] ELSE h : h \in highlights},
     O |-> objects, nh |-> nextHl, i |-> 1, gone |-> {},
     status |-> 0, tag |-> "ok", commit |-> FALSE]

Stop(acc, status, tag) == [acc EXCEPT !.status = status, !.tag = tag]

\* highlight.order = i on the session's object of the committed row of id hid
SetOrder(H, hid, ord) == {IF h.id = hid THEN [h EXCEPT !.order = ord] ELSE h : h \in H}

\* loop 1: for story_id in selected_ids
RECURSIVE EditSelect(_, _, _, _, _)
EditSelect(acc, u, name, cover, sel) ==
    IF sel = <<>> \/ acc.status # 0 THEN acc
    ELSE LET sid == Head(sel) IN
      IF sid \notin DOMAIN acc.S
        THEN Stop(acc, 502, "internal")               \* story.user_id on None raises
      ELSE IF acc.S[sid].user_id # u
        THEN Stop(acc, 400, "forbidden")
      ELSE IF acc.S[sid].highlight
        THEN IF RowsOfStory(sid) = {}
               THEN [Stop(acc, 502, "highlight_not_found")
                        EXCEPT !.S[sid].highlight = FALSE, !.commit = TRUE]
               ELSE EditSelect([acc EXCEPT !.H = SetOrder(acc.H, FirstRow(RowsOfStory(sid)).id, acc.i),
                                           !.i = acc.i + 1],
                               u, name, cover, Tail(sel))
      ELSE EditSelect([acc EXCEPT !.S[sid].highlight = TRUE,
                                  !.H = acc.H \cup {NewHighlight(acc.nh, sid, name, cover, acc.i)},
                                  !.nh = acc.nh + 1,
                                  !.i = acc.i + 1],
                      u, name, cover, Tail(sel))

\* loop 2: for story_id in deselected_ids.  "if sid in selected_ids" compares a
\* UUID with the request's strings and never holds, so no id is skipped.
RECURSIVE EditDeselect(_, _, _, _, _)
EditDeselect(acc, u, t, fails, des) ==
    IF des = <<>> \/ acc.status # 0 THEN acc
    ELSE LET sid == Head(des) IN
      IF RowsOfStory(sid) = {}
        THEN Stop(acc, 502, "internal")               \* h.story on None raises
      ELSE IF acc.S[sid].user_id # u
        THEN Stop(acc, 400, "forbidden")
      ELSE LET hid == FirstRow(RowsOfStory(sid)).id
               dropped == [acc EXCEPT !.H = {h \in acc.H : h.id # hid}]
           IN IF Demote(acc.S[sid], t) = "unmark"
                THEN EditDeselect([dropped EXCEPT !.S[sid].highlight = FALSE],
                                  u, t, fails, Tail(des))
              ELSE IF ~MediaDeletionOk(sid, fails)
                THEN Stop([dropped EXCEPT !.O = acc.O \ MediaDeleted(sid, fails)], 502, "upstream")
              ELSE EditDeselect([dropped EXCEPT !.O = acc.O \ MediaDeleted(sid, fails),
                                                !.gone = acc.gone \cup {sid}],
                                u, t, fails, Tail(des))

EditResult(u, name, cover, old_name, old_cover, sel, des, fails) ==
    EditDeselect(EditSelect(EditStart(name, cover, old_name, old_cover), u, name, cover, sel),
                 u, now, fails, des)

edit_highlight_folder(u, name, cover, old_name, old_cover, sel, des, fails) ==
    LET r == EditResult(u, name, cover, old_name, old_cover, sel, des, fails) IN
    /\ IF r.status = 0 \/ r.commit
         THEN /\ stories' = DropStories(r.S, r.gone)
              /\ highlights' = CascadeHighlights(r.H, r.gone)
              /\ nextHl' = r.nh
         ELSE UNCHANGED <<stories, highlights, nextHl>>
    /\ objects' = r.O
    /\ last' = [Resp("edit_highlight_folder", u, 0, IF r.status = 0 THEN 200 ELSE r.status, r.tag)
                  EXCEPT !.fails = fails]
    /\ UNCHANGED <<now, ticks, users, nextStory>>
    /\ reactions' = IF r.status = 0 THEN CascadeReactions(reactions, r.gone) ELSE reactions
    /\ comments' = IF r.status = 0 THEN CascadeComments(comments, r.gone) ELSE comments
    /\ UNCHANGED <<followers, close_friends, responses, sessions>>

\* ------------------------------------- delete_story_from_recently_deleted
\* The handler clears deleted_at and leaves expires_at as the delete set it.
delete_story_from_recently_deleted(u, sid) ==
    /\ IF ~Exists(sid) \/ (Exists(sid) /\ stories[sid].deleted_at = Null)
         THEN /\ last' = Resp("delete_story_from_recently_deleted", u, sid, 400, "not_found")
              /\ UNCHANGED stories
         ELSE IF stories[sid].user_id # u
         THEN /\ last' = Resp("delete_story_from_recently_deleted", u, sid, 400, "forbidden")
              /\ UNCHANGED stories
         ELSE /\ stories' = [stories EXCEPT ![sid].deleted_at = Null]
              /\ last' = Resp("delete_story_from_recently_deleted", u, sid, 200, "ok")
    /\ UNCHANGED <<now, ticks, users, nextStory, highlights, nextHl, objects>>
    /\ UNCHANGED <<followers, close_friends, reactions, comments, responses, sessions>>

\* ------------------------------------------------ delete_story_from_archive
\* The query filters on the id, the owner and archive == True.
delete_story_from_archive(u, sid) ==
    /\ IF ~Exists(sid) \/ (Exists(sid) /\ (stories[sid].user_id # u \/ ~stories[sid].archive))
         THEN /\ last' = Resp("delete_story_from_archive", u, sid, 404, "not_found")
              /\ UNCHANGED stories
         ELSE /\ stories' = [stories EXCEPT ![sid] = SoftDeleted(@, now)]
              /\ last' = Resp("delete_story_from_archive", u, sid, 200, "ok")
    /\ UNCHANGED <<now, ticks, users, nextStory, highlights, nextHl, objects>>
    /\ UNCHANGED <<followers, close_friends, reactions, comments, responses, sessions>>

\* -------------------------- archive_highlight_folder, unarchive_highight_folder
\* The rows query filters on name, cover_image_key and the archive flag, of any
\* owner; it has no ORDER BY, so highlights[0] is any of its rows.
FolderByCover(name, cover, archived) ==
    {h \in highlights : h.name = name /\ h.cover_image_key = cover /\ h.archive = archived}

SetFolderArchive(op, u, name, cover, from) ==
    /\ IF FolderByCover(name, cover, from) = {}
         THEN /\ last' = Resp(op, u, 0, 404, "not_found")
              /\ UNCHANGED highlights
         ELSE \E first \in FolderByCover(name, cover, from) :
              /\ IF OwnerOf(first) # u
                   THEN /\ last' = Resp(op, u, 0, 403, "forbidden")
                        /\ UNCHANGED highlights
                   ELSE /\ highlights' =
                              {IF h \in FolderByCover(name, cover, from)
                                 THEN [h EXCEPT !.archive = ~from] ELSE h : h \in highlights}
                        /\ last' = Resp(op, u, 0, 200, "ok")
    /\ UNCHANGED <<now, ticks, users, stories, nextStory, nextHl, objects>>
    /\ UNCHANGED <<followers, close_friends, reactions, comments, responses, sessions>>

archive_highlight_folder(u, name, cover) ==
    SetFolderArchive("archive_highlight_folder", u, name, cover, FALSE)

unarchive_highight_folder(u, name, cover) ==
    SetFolderArchive("unarchive_highight_folder", u, name, cover, TRUE)

\* --------------------------------------------------- delete_highlight_folder
\* the orders in which a query without ORDER BY can return a set of rows
RowOrders(rows) ==
    {seq \in [1..Cardinality(rows) -> rows] :
        \A i, j \in 1..Cardinality(rows) : seq[i] = seq[j] => i = j}

\* the loop over the folder's rows: [S: story objects, O: object store,
\* gone: stories marked for deletion, status, tag]
RECURSIVE FolderDelete(_, _, _, _)
FolderDelete(acc, t, fails, seq) ==
    IF seq = <<>> \/ acc.status # 0 THEN acc
    ELSE LET sid == Head(seq).story_id IN
      IF Demote(acc.S[sid], t) = "unmark"
        THEN FolderDelete([acc EXCEPT !.S[sid].highlight = FALSE], t, fails, Tail(seq))
      ELSE IF ~MediaDeletionOk(sid, fails)
        THEN Stop([acc EXCEPT !.O = acc.O \ MediaDeleted(sid, fails)], 502, "upstream")
      ELSE FolderDelete([acc EXCEPT !.O = acc.O \ MediaDeleted(sid, fails),
                                    !.gone = acc.gone \cup {sid}],
                        t, fails, Tail(seq))

\* seq: the folder's rows in the order the query returns them
delete_highlight_folder(u, name, fails) ==
    /\ IF FolderRows(u, name) = {}
         THEN /\ last' = Resp("delete_highlight_folder", u, 0, 404, "not_found")
              /\ UNCHANGED <<stories, highlights, objects, reactions, comments>>
         ELSE \E seq \in RowOrders(FolderRows(u, name)) :
              /\ IF CoverKey(seq[1].cover_image_key) \in fails
                   THEN /\ last' = [Resp("delete_highlight_folder", u, 0, 502, "upstream")
                                      EXCEPT !.fails = fails]
                        /\ UNCHANGED <<stories, highlights, objects, reactions, comments>>
                   ELSE LET r == FolderDelete(
                                    [S |-> stories,
                                     O |-> objects \ {CoverKey(seq[1].cover_image_key)},
                                     gone |-> {}, status |-> 0, tag |-> "ok"],
                                    now, fails, seq)
                        IN /\ objects' = r.O
                           /\ last' = [Resp("delete_highlight_folder", u, 0,
                                            IF r.status = 0 THEN 200 ELSE r.status, r.tag)
                                         EXCEPT !.fails = fails]
                           /\ IF r.status = 0
                                THEN /\ stories' = DropStories(r.S, r.gone)
                                     /\ highlights' = CascadeHighlights(
                                            highlights \ FolderRows(u, name), r.gone)
                                     /\ reactions' = CascadeReactions(reactions, r.gone)
                                     /\ comments' = CascadeComments(comments, r.gone)
                                ELSE UNCHANGED <<stories, highlights, reactions, comments>>
    /\ UNCHANGED <<now, ticks, users, nextStory, nextHl>>
    /\ UNCHANGED <<followers, close_friends, responses, sessions>>

\* -------------------------------------------------- view_story_for_activity
\* Lookup of one story by id; it reads and writes nothing.
view_story_for_activity(u, sid) ==
    /\ last' = IF ~Exists(sid)
                 THEN Resp("view_story_for_activity", u, sid, 404, "not_found")
               ELSE IF stories[sid].user_id # u
                 THEN Resp("view_story_for_activity", u, sid, 400, "forbidden")
               ELSE IF stories[sid].highlight /\ RowsOfStory(sid) = {}
                 THEN Resp("view_story_for_activity", u, sid, 502, "internal")
               ELSE Resp("view_story_for_activity", u, sid, 200, "ok")
    /\ UNCHANGED <<now, ticks, users, stories, nextStory, highlights, nextHl, objects>>
    /\ UNCHANGED <<followers, close_friends, reactions, comments, responses, sessions>>

\* ------------------------------------------------------------ social graph
\* Follower row of viewer v towards user u with status accepted, not blocked
IsFollower(v, u) ==
    \E f \in followers : /\ f.follower_id = v /\ f.following_id = u
                         /\ f.status = "accepted" /\ ~f.blocked

\* CloseFriend row of user u naming v
IsCloseFriend(v, u) == <<u, v>> \in close_friends

InSeq(x, seq) == \E k \in 1..Len(seq) : seq[k] = x

\* -------------------------------------------------------- list_user_stories
\* mutant: a close friend also passes the private tier
ListFilterCloseFriendsSeePrivate(st, owner, viewer, t) ==
    /\ st.user_id = owner /\ t < st.expires_at
    /\ \/ owner = viewer
       \/ st.privacy = "public"
       \/ (st.privacy = "private" /\ (IsFollower(viewer, owner) \/ IsCloseFriend(viewer, owner)))
       \/ (st.privacy = "close friends" /\ IsCloseFriend(viewer, owner))
    /\ ~st.archive /\ st.deleted_at = Null

\* the three filters of the stories query
ListFilter(st, owner, viewer, t) ==
    /\ st.user_id = owner /\ t < st.expires_at
    /\ \/ owner = viewer
       \/ st.privacy = "public"
       \/ (st.privacy = "private" /\ IsFollower(viewer, owner))
       \/ (st.privacy = "close friends" /\ IsCloseFriend(viewer, owner))
    /\ ~st.archive /\ st.deleted_at = Null

ListSelected(owner, viewer) ==
    {sid \in DOMAIN stories : ListFilter(stories[sid], owner, viewer, now)}

\* highlight.name on None raises for a highlighted story that has no row
ListRaises(sel) == \E sid \in sel : stories[sid].highlight /\ RowsOfStory(sid) = {}

\* ------------------------------------------------------------ viewer ledger
\* The session of a viewing request: the viewers lists it read
Session(op, owner, viewer, ids) ==
    [op |-> op, owner |-> owner, viewer |-> viewer,
     seen |-> [sid \in ids |-> stories[sid].viewers]]

\* mutant: the append does not look at has_seen
ViewWritesAlways(ses) ==
    [sid \in DOMAIN ses.seen |-> Append(ses.seen[sid], ses.viewer)]

\* has_seen = viewer_id in story.viewers; if not has_seen:
\*     story.viewers = story.viewers + [viewer_id]
\* the attribute values the session has pending for its commit
ViewWrites(ses) ==
    [sid \in {i \in DOMAIN ses.seen : ~InSeq(ses.viewer, ses.seen[i])} |->
        Append(ses.seen[sid], ses.viewer)]

\* the UPDATE of a row that is gone fails the flush (StaleDataError)
CommitRaises(ses) == \E sid \in DOMAIN ViewWrites(ses) : sid \notin DOMAIN stories

\* s.commit(): every pending viewers list overwrites the row's column
Committed(S, ses) ==
    [sid \in DOMAIN S |->
        IF sid \in DOMAIN ViewWrites(ses)
          THEN [S[sid] EXCEPT !.viewers = ViewWrites(ses)[sid]] ELSE S[sid]]

\* the handler's response once its loop has run
ViewResponse(ses) ==
    IF CommitRaises(ses)
      THEN Resp(ses.op, ses.viewer, ses.owner, 502, "internal")
      ELSE [Resp(ses.op, ses.viewer, ses.owner, 200, "ok") EXCEPT !.returned = DOMAIN ses.seen]

list_user_stories(owner, viewer) ==
    LET sel == ListSelected(owner, viewer)
        ses == Session("list_user_stories", owner, viewer, sel)
    IN /\ IF ListRaises(sel)
            THEN /\ last' = Resp("list_user_stories", viewer, owner, 502, "internal")
                 /\ UNCHANGED stories
            ELSE /\ stories' = Committed(stories, ses)
                 /\ last' = ViewResponse(ses)
       /\ UNCHANGED <<now, ticks, users, nextStory, highlights, nextHl, objects>>
       /\ UNCHANGED <<followers, close_friends, reactions, comments, responses, sessions>>

\* ------------------------------------------------------------------ get_feed
\* the Story filters of base_q: not archived, not expired, not deleted
FeedActive(st, t) == ~st.archive /\ st.expires_at > t /\ st.deleted_at = Null

FeedStories(a) == {sid \in DOMAIN stories : stories[sid].user_id = a}

\* func.max(Story.created_at) over the rows of author a that pass the filters
LatestStoryTime(a) ==
    LET times == {stories[sid].created_at :
                    sid \in {i \in FeedStories(a) : FeedActive(stories[i], now)}}
    IN CHOOSE t \in times : \A x \in times : x <= t

\* the groups of base_q: users with a story that passes the filters whom the
\* viewer follows (accepted, not blocked) or who list the viewer as a close
\* friend; with a cursor, those whose latest time lies before it
FeedAuthors(viewer, cursor) ==
    {a \in Users :
        /\ \E sid \in FeedStories(a) : FeedActive(stories[sid], now)
        /\ IsFollower(viewer, a) \/ IsCloseFriend(viewer, a)
        /\ cursor # Null => LatestStoryTime(a) < cursor[1]}

\* order_by(desc("latest_story_time")): equal times come in any order
FeedOrders(viewer, cursor) ==
    {seq \in RowOrders(FeedAuthors(viewer, cursor)) :
        \A i, j \in 1..Len(seq) :
            i < j => LatestStoryTime(seq[i]) >= LatestStoryTime(seq[j])}

\* order_by(Story.created_at.desc()).first() over all stories of author a:
\* any of the stories created last
LatestStories(a) ==
    {sid \in FeedStories(a) :
        \A i \in FeedStories(a) : stories[i].created_at <= stories[sid].created_at}

\* an element of feed_data; last_story_time and privacy are Null for None
FeedEntry(a, own, time, privacy, unseen) ==
    [user_id |-> a, is_current_user |-> own,
     last_story_time |-> time, privacy |-> privacy, has_new_stories |-> unseen]

\* has_new_stories of an entry of the loop: a story of author a with archive
\* False and expires_at > now whose viewers list does not hold the viewer
HasNewStories(viewer, a) ==
    \E sid \in FeedStories(a) :
        /\ ~stories[sid].archive /\ stories[sid].expires_at > now
        /\ ~InSeq(viewer, stories[sid].viewers)

\* the viewer's stories with archive False, the ones created last: first()
\* returns any of them, or None (0 here) when there is none
OwnLatest(viewer) ==
    LET own == {sid \in FeedStories(viewer) : ~stories[sid].archive}
        top == {sid \in own : \A i \in own : stories[i].created_at <= stories[sid].created_at}
    IN IF own = {} THEN {0} ELSE top

\* the viewer's own entry, on the first page only
FeedStart(viewer, cursor, ownsid) ==
    IF cursor # Null THEN <<>>
    ELSE IF ownsid = 0 THEN <<FeedEntry(viewer, TRUE, Null, Null, FALSE)>>
    ELSE <<FeedEntry(viewer, TRUE, Some(stories[ownsid].created_at),
                     Some(stories[ownsid].privacy),
                     ~InSeq(viewer, stories[ownsid].viewers))>>

\* for r in base_q; pick[a] is the latest story the loop reads for author a
RECURSIVE FeedLoop(_, _, _, _, _)
FeedLoop(feed, seq, viewer, limit, pick) ==
    IF seq = <<>> \/ Len(feed) = limit THEN feed
    ELSE IF stories[pick[Head(seq)]].privacy = "close friends"
              /\ ~IsCloseFriend(viewer, Head(seq))
      THEN FeedLoop(feed, Tail(seq), viewer, limit, pick)
      ELSE FeedLoop(Append(feed, FeedEntry(Head(seq), FALSE,
                                           Some(LatestStoryTime(Head(seq))),
                                           Some(stories[pick[Head(seq)]].privacy),
                                           HasNewStories(viewer, Head(seq)))),
                    Tail(seq), viewer, limit, pick)

\* next_cursor_val: the last_story_time of the last element, None without one
NextCursor(feed) ==
    IF feed = <<>> THEN Null ELSE feed[Len(feed)].last_story_time

\* cursor: Null on the first page, else the last_story_time of a page's last entry
get_feed(viewer, limit, cursor) ==
    /\ \E seq \in FeedOrders(viewer, cursor) :
         \E pick \in [FeedAuthors(viewer, cursor) -> DOMAIN stories],
            ownsid \in OwnLatest(viewer) :
            /\ \A a \in FeedAuthors(viewer, cursor) : pick[a] \in LatestStories(a)
            /\ LET feed == FeedLoop(FeedStart(viewer, cursor, ownsid),
                                    seq, viewer, limit, pick)
               IN last' = [Resp("get_feed", viewer, limit, 200, "ok") EXCEPT
                             !.feed = feed, !.cursor = cursor,
                             !.next_cursor = NextCursor(feed)]
    /\ UNCHANGED <<now, ticks, users, stories, nextStory, highlights, nextHl, objects>>
    /\ UNCHANGED <<followers, close_friends, reactions, comments, responses, sessions>>

\* ------------------------------------------------------------ get_highlights
\* a private profile shows its highlights to its followers and its owner only
HighlightsForbidden(owner, viewer) ==
    /\ users[owner].profile_visibility = "private"
    /\ ~IsFollower(viewer, owner)
    /\ owner # viewer

\* the stories of the folder's rows that the loop does not skip
HighlightsShown(owner, viewer, name) ==
    {h.story_id : h \in {g \in FolderRows(owner, name) :
        ~(stories[g.story_id].privacy = "close friends" /\ ~IsCloseFriend(viewer, owner))}}

\* the response of get_highlights when it returns before its loop
HighlightsRefusal(owner, viewer, name) ==
    IF HighlightsForbidden(owner, viewer)
      THEN Resp("get_highlights", viewer, owner, 403, "forbidden")
      ELSE Resp("get_highlights", viewer, owner, 404, "not_found")

HighlightsRefused(owner, viewer, name) ==
    HighlightsForbidden(owner, viewer) \/ FolderRows(owner, name) = {}

get_highlights(owner, viewer, name) ==
    LET ses == Session("get_highlights", owner, viewer, HighlightsShown(owner, viewer, name))
    IN /\ IF HighlightsRefused(owner, viewer, name)
            THEN /\ last' = HighlightsRefusal(owner, viewer, name)
                 /\ UNCHANGED stories
            ELSE /\ stories' = Committed(stories, ses)
                 /\ last' = ViewResponse(ses)
       /\ UNCHANGED <<now, ticks, users, nextStory, highlights, nextHl, objects>>
       /\ UNCHANGED <<followers, close_friends, reactions, comments, responses, sessions>>


\* the archived-stories listing of user u; returned holds the listed story ids
list_archived_stories(u) ==
    /\ last' = [Resp("list_archived_stories", u, u, 200, "ok") EXCEPT
                  !.returned = {sid \in DOMAIN stories :
                                   /\ stories[sid].user_id = u
                                   /\ stories[sid].archive
                                   /\ stories[sid].deleted_at = Null}]
    /\ UNCHANGED <<now, ticks, users, stories, nextStory, highlights, nextHl, objects>>
    /\ UNCHANGED <<followers, close_friends, reactions, comments, responses, sessions>>

\* ------------------------------------------------- requests that interleave
\* A viewing request in slot p runs in two steps when other requests run at
\* the same time: its queries and its loop, which leave the new viewers lists
\* pending in its session, and its commit.
list_user_stories_begin(p, owner, viewer) ==
    /\ sessions[p] = Idle
    /\ IF ListRaises(ListSelected(owner, viewer))
         THEN /\ last' = Resp("list_user_stories", viewer, owner, 502, "internal")
              /\ UNCHANGED sessions
         ELSE /\ sessions' = [sessions EXCEPT ![p] =
                    Session("list_user_stories", owner, viewer, ListSelected(owner, viewer))]
              /\ UNCHANGED last
    /\ UNCHANGED <<now, ticks, users, stories, nextStory, highlights, nextHl, objects>>
    /\ UNCHANGED <<followers, close_friends, reactions, comments, responses>>

get_highlights_begin(p, owner, viewer, name) ==
    /\ sessions[p] = Idle
    /\ IF HighlightsRefused(owner, viewer, name)
         THEN /\ last' = HighlightsRefusal(owner, viewer, name)
              /\ UNCHANGED sessions
         ELSE /\ sessions' = [sessions EXCEPT ![p] =
                    Session("get_highlights", owner, viewer, HighlightsShown(owner, viewer, name))]
              /\ UNCHANGED last
    /\ UNCHANGED <<now, ticks, users, stories, nextStory, highlights, nextHl, objects>>
    /\ UNCHANGED <<followers, close_friends, reactions, comments, responses>>

\* s.commit() and the response of the request in slot p
session_commit(p) ==
    /\ sessions[p] # Idle
    /\ stories' = IF CommitRaises(sessions[p]) THEN stories
                  ELSE Committed(stories, sessions[p])
    /\ last' = ViewResponse(sessions[p])
    /\ sessions' = [sessions EXCEPT ![p] = Idle]
    /\ UNCHANGED <<now, ticks, users, nextStory, highlights, nextHl, objects>>
    /\ UNCHANGED <<followers, close_friends, reactions, comments, responses>>

\* ------------------------------------------------------------ interactions
\* the privacy checks of react_to_story and comment_on_story
TierAllows(u, st) ==
    IF st.privacy = "private" THEN IsFollower(u, st.user_id)
    ELSE IF st.privacy = "close friends" THEN IsCloseFriend(u, st.user_id)
    ELSE TRUE

\* the checks of react_to_story in the order of the code
ReactDecision(u, sid) ==
    IF ~Exists(sid) \/ (Exists(sid) /\ stories[sid].archive) THEN "not_found"
    ELSE IF stories[sid].user_id = u THEN "own_story"
    ELSE IF ~TierAllows(u, stories[sid]) THEN "not_eligible"
    ELSE "ok"

\* existing.reaction_type = reaction_type, or a new row
react_to_story(u, sid, rtype) ==
    /\ IF ReactDecision(u, sid) = "ok"
         THEN /\ reactions' = {r \in reactions : ~(r.story_id = sid /\ r.user_id = u)}
                                \cup {[story_id |-> sid, user_id |-> u, reaction_type |-> rtype]}
              /\ last' = Resp("react_to_story", u, sid, 201, "ok")
         ELSE /\ last' = Resp("react_to_story", u, sid, 400, ReactDecision(u, sid))
              /\ UNCHANGED reactions
    /\ UNCHANGED <<now, ticks, users, stories, nextStory, highlights, nextHl, objects>>
    /\ UNCHANGED <<followers, close_friends, comments, responses, sessions>>

\* the checks of comment_on_story in the order of the code
CommentDecision(u, sid) ==
    IF ~Exists(sid) \/ (Exists(sid) /\ stories[sid].archive) THEN "not_found"
    ELSE IF u = stories[sid].user_id THEN "own_story"
    ELSE IF ~TierAllows(u, stories[sid]) THEN "not_eligible"
    ELSE "ok"

comment_on_story(u, sid, text) ==
    /\ IF CommentDecision(u, sid) = "ok"
         THEN /\ comments' = Append(comments, [story_id |-> sid, user_id |-> u, text |-> text])
              /\ last' = Resp("comment_on_story", u, sid, 201, "ok")
         ELSE /\ last' = Resp("comment_on_story", u, sid,
                              IF CommentDecision(u, sid) = "not_found" THEN 404 ELSE 400,
                              CommentDecision(u, sid))
              /\ UNCHANGED comments
    /\ UNCHANGED <<now, ticks, users, stories, nextStory, highlights, nextHl, objects>>
    /\ UNCHANGED <<followers, close_friends, reactions, responses, sessions>>

\* the number of options of the story's sticker of a type, 0 without one
StickerOptions(st, type) == IF type = "poll" THEN st.poll ELSE st.quiz

\* the checks of vote_poll and of record_answer_for_quiz, which are the same
\* code for the sticker types "poll" and "quiz"; "not option" holds for option 0
StickerDecision(u, sid, option, type) ==
    IF option = 0 THEN "missing"
    ELSE IF ~Exists(sid) THEN "not_found"
    ELSE IF stories[sid].user_id = u THEN "own_story"
    ELSE IF StickerOptions(stories[sid], type) = 0 THEN "no_sticker"
    ELSE IF option < 0 \/ option >= StickerOptions(stories[sid], type) THEN "invalid_option"
    ELSE IF \E r \in responses : r.story_id = sid /\ r.type = type /\ r.user_id = u
      THEN "duplicate"
    ELSE "ok"

StickerRespond(op, u, sid, option, type) ==
    /\ IF StickerDecision(u, sid, option, type) = "ok"
         THEN /\ responses' = responses \cup
                    {[story_id |-> sid, type |-> type, user_id |-> u, selected_option |-> option]}
              /\ last' = Resp(op, u, sid, 201, "ok")
         ELSE /\ last' = Resp(op, u, sid, 400, StickerDecision(u, sid, option, type))
              /\ UNCHANGED responses
    /\ UNCHANGED <<now, ticks, users, stories, nextStory, highlights, nextHl, objects>>
    /\ UNCHANGED <<followers, close_friends, reactions, comments, sessions>>

vote_poll(u, sid, option) == StickerRespond("vote_poll", u, sid, option, "poll")

record_answer_for_quiz(u, sid, option) ==
    StickerRespond("record_answer_for_quiz", u, sid, option, "quiz")

\* ========================================================= sweep specification
\* Posting, soft delete, archiving, promotion into a folder and the sweep.
\* lambda_handler runs run_cleanup and then one handler, each in a session of
\* its own: two steps of this specification.  User 1 has auto-archive off and
\* user 2 has it on; requests come from the stories' owners.
InitStore ==
    /\ now = 0
    /\ ticks = 0
    /\ users = [u \in Users |->
                  [auto_archive_stories |-> (u = 2),
                   profile_visibility |-> IF u = 2 THEN "private" ELSE "public"]]
    /\ stories = <<>>
    /\ nextStory = 1
    /\ highlights = {}
    /\ nextHl = 1
    /\ objects = {}
    /\ reactions = {}
    /\ comments = <<>>
    /\ responses = {}
    /\ sessions = [p \in Slots |-> Idle]
    /\ last = Resp("init", 0, 0, 0, "none")

Init ==
    /\ InitStore
    /\ followers = {}
    /\ close_friends = {}

NextSweep ==
    \/ \E d \in TickSteps : ticks < SweepMaxTicks /\ Tick(d)
    \/ \E u \in Users : nextStory <= SweepMaxStories /\ confirm_story(u, "public", 0, 0)
    \/ \E sid \in DOMAIN stories : delete_story(stories[sid].user_id, sid)
    \/ \E sid \in DOMAIN stories : archive_story(stories[sid].user_id, sid)
    \/ \E u \in Users : upload_default_cover_image(u, "c1")
    \/ \E sid \in DOMAIN stories : create_highlight(stories[sid].user_id, "A", "c1", <<sid>>)
    \/ \E fails \in SUBSET PurgeKeys(stories, users, now) : run_cleanup(fails)

SpecSweep == Init /\ [][NextSweep]_vars

SweepRan == last.op = "run_cleanup"
SweepRanClean == last.op = "run_cleanup" /\ last.fails = {}

\* C2: after a sweep in which every storage deletion succeeded, every remaining
\* story that is expired and not archived is highlighted or inside its 30-day
\* soft-delete window.
SweepPostcondition ==
    SweepRanClean =>
        \A i \in DOMAIN stories :
            (stories[i].expires_at <= now /\ ~stories[i].archive) =>
                \/ stories[i].highlight
                \/ (stories[i].deleted_at # Null /\ now - stories[i].deleted_at[1] < 30)

\* a clean sweep has just left a protected (highlighted, expired, unarchived) story
SweepPostconditionWitness ==
    /\ SweepRanClean
    /\ \E i \in DOMAIN stories :
          stories[i].expires_at <= now /\ ~stories[i].archive /\ stories[i].highlight

\* C3: the sweep removes a story row only if the story was expired, not archived,
\* not highlighted, its owner has auto-archive off, and deleted_at is null or at
\* least 30 days before now.
SweepPurgeGuard ==
    [][\A i \in DOMAIN stories :
          (last'.op = "run_cleanup" /\ i \notin DOMAIN stories') =>
              /\ stories[i].expires_at <= now
              /\ ~stories[i].archive
              /\ ~users[stories[i].user_id].auto_archive_stories
              /\ ~stories[i].highlight
              /\ (stories[i].deleted_at = Null \/ now - stories[i].deleted_at[1] >= 30)]_vars

\* the sweep has purged a story, 30 days or more after the first post
SweepPurgeGuardWitness ==
    /\ SweepRan
    /\ \E i \in Issued : Purged(i)
    /\ now >= 30

\* C4: a row is removed by the sweep only with both media objects gone; a story
\* whose media or thumbnail deletion failed keeps its row unchanged in that pass,
\* and the sweep that follows with working storage removes the row and both objects.
MediaThenRow ==
    [][last'.op = "run_cleanup" =>
          \A i \in DOMAIN stories :
              /\ (i \notin DOMAIN stories') =>
                    (MediaKey(i) \notin objects' /\ ThumbKey(i) \notin objects')
              /\ (MediaKey(i) \in last'.fails \/ ThumbKey(i) \in last'.fails) =>
                    (i \in DOMAIN stories' /\ stories'[i] = stories[i])
              /\ (/\ last.op = "run_cleanup"
                  /\ last'.fails = {}
                  /\ (MediaKey(i) \in last.fails \/ ThumbKey(i) \in last.fails)) =>
                    /\ i \notin DOMAIN stories'
                    /\ MediaKey(i) \notin objects'
                    /\ ThumbKey(i) \notin objects']_vars

\* a sweep has deleted a story's media object, failed on its thumbnail and kept the row
MediaThenRowWitness ==
    /\ SweepRan
    /\ \E i \in DOMAIN stories :
          ThumbKey(i) \in last.fails /\ MediaKey(i) \notin objects /\ ThumbKey(i) \in objects

\* C6: a sweep that directly follows a sweep at the same time, both with working
\* storage, changes neither the relational store nor the object store.
SweepIdempotent ==
    [][(/\ last.op = "run_cleanup" /\ last.fails = {}
        /\ last'.op = "run_cleanup" /\ last'.fails = {}) =>
          /\ now' = now
          /\ stories' = stories
          /\ highlights' = highlights
          /\ objects' = objects]_vars

\* a clean sweep has acted: it purged one of the stories
SweepIdempotentWitness ==
    /\ SweepRanClean
    /\ \E i \in Issued : Purged(i) /\ MediaKey(i) \notin objects

\* ==================================================== highlights specification
\* Folders of one name under two cover images, with working storage.  Stories
\* are added and removed by their owners; folders are created and edited by
\* either user.
Covers == {"c1", "c2"}

\* request lists of story ids: at most two different ids, ids of purged stories
\* included
IdLists ==
    {<<>>} \cup {<<i>> : i \in Issued}
           \cup {l \in {<<i, j>> : i \in Issued, j \in Issued} : l[1] # l[2]}

NextHighlights ==
    \/ ticks < HlMaxTicks /\ Tick(LifetimeDays)
    \/ \E u \in Users : nextStory <= HlMaxStories /\ confirm_story(u, "public", 0, 0)
    \/ \E u \in Users, k \in Covers : upload_default_cover_image(u, k)
    \/ \E u \in Users, k \in Covers, keys \in IdLists :
          nextHl + Len(keys) <= HlMaxRows + 1 /\ create_highlight(u, "A", k, keys)
    \/ \E sid \in DOMAIN stories, k \in Covers :
          nextHl <= HlMaxRows /\ add_to_highlights(stories[sid].user_id, sid, "A", k)
    \/ \E h \in highlights : remove_highlight_from_highlights(OwnerOf(h), h.id, {})
    \/ \E sid \in DOMAIN stories : remove_story_from_highlights(stories[sid].user_id, sid, {})
    \/ \E u \in Users, k \in Covers, ok \in Covers, sel \in IdLists, des \in IdLists :
          /\ nextHl + Len(sel) <= HlMaxRows + 1
          /\ Len(sel) + Len(des) \in 1..2
          /\ edit_highlight_folder(u, "A", k, "A", ok, sel, des, {})

SpecHighlights == Init /\ [][NextHighlights]_vars

\* the rows of the (owner, name, cover_image_key) group of row h
GroupOf(h) ==
    {g \in highlights : /\ OwnerOf(g) = OwnerOf(h)
                        /\ g.name = h.name
                        /\ g.cover_image_key = h.cover_image_key}

\* C1: after every completed create_highlight, add_to_highlights,
\* remove_highlight_from_highlights, remove_story_from_highlights and
\* edit_highlight_folder call, the order values of every (owner, name,
\* cover_image_key) group are exactly 1..N for a group of N rows.
OrderDensity ==
    \A h \in highlights :
        /\ {g.order : g \in GroupOf(h)} = 1..Cardinality(GroupOf(h))
        /\ \A g \in GroupOf(h) : g.order = h.order => g = h

\* ====================================================== terminal specification
\* Stories are posted, soft-deleted and swept with working storage; either user
\* then addresses requests to any id ever issued, the purged ones included.
NextTerminal ==
    \/ ticks < TermMaxTicks /\ Tick(RetentionDays)
    \/ \E u \in Users : nextStory <= TermMaxStories /\ confirm_story(u, "public", 0, 0)
    \/ \E u \in Users : upload_default_cover_image(u, "c1")
    \/ run_cleanup({})
    \/ \E u \in Users, sid \in Issued : delete_story(u, sid)
    \/ \E u \in Users, sid \in Issued : archive_story(u, sid)
    \/ \E u \in Users, sid \in Issued : restore_story_from_recently_deleted(u, sid)
    \/ \E u \in Users, sid \in Issued : view_story_for_activity(u, sid)
    \/ \E u \in Users, sid \in Issued : add_to_highlights(u, sid, "A", "c1")
    \/ \E u \in Users, sid \in Issued : create_highlight(u, "A", "c1", <<sid>>)
    \/ \E u \in Users, sid \in Issued :
          edit_highlight_folder(u, "A", "c1", "A", "c1", <<sid>>, <<>>, {})

SpecTerminal == Init /\ [][NextTerminal]_vars

\* the response reports not-found and the stores are as before
NotFoundNothingChanged ==
    /\ last'.tag = "not_found"
    /\ UNCHANGED <<stories, highlights, objects, reactions, comments, responses>>

FollowerRows ==
    {[follower_id |-> 2, following_id |-> 1, status |-> st, blocked |-> b] :
        st \in {"accepted", "pending"}, b \in BOOLEAN}

InitSocial ==
    /\ InitStore
    /\ followers \in {{}} \cup {{f} : f \in FollowerRows}
    /\ close_friends \in SUBSET {<<1, 2>>}

NextView ==
    \/ ticks < ViewMaxTicks /\ Tick(LifetimeDays)
    \/ \E p \in Privacies : nextStory <= ViewMaxStories /\ confirm_story(1, p, 0, 0)
    \/ \E sid \in DOMAIN stories : delete_story(stories[sid].user_id, sid)
    \/ \E sid \in DOMAIN stories : archive_story(stories[sid].user_id, sid)
    \/ \E viewer \in Users : list_user_stories(1, viewer)

SpecView == InitSocial /\ [][NextView]_vars

\* spec 4.1: expires_at > now, deleted_at null, archive = false
Active(st, t) == st.expires_at > t /\ st.deleted_at = Null /\ ~st.archive

\* the privacy table of the viewer towards a story
TableEligible(viewer, st) ==
    \/ viewer = st.user_id
    \/ st.privacy = "public"
    \/ /\ st.privacy = "private"
       /\ \E f \in followers : /\ f.follower_id = viewer /\ f.following_id = st.user_id
                               /\ f.status = "accepted" /\ f.blocked = FALSE
    \/ /\ st.privacy = "close friends"
       /\ <<st.user_id, viewer>> \in close_friends

\* C7: list_user_stories returns an Active story of the listed user iff the
\* viewer is the owner, or the tier is public, or the tier is private and the
\* viewer has an accepted, non-blocked follower row towards the owner, or the
\* tier is close friends and the viewer is in the owner's close-friends set.
PrivacyTable ==
    [][last'.op = "list_user_stories" =>
          \A sid \in DOMAIN stories :
              (stories[sid].user_id = last'.target /\ Active(stories[sid], now)) =>
                  (sid \in last'.returned <=> TableEligible(last'.actor, stories[sid]))]_vars

\* a listing has returned a private story to a follower who is no close friend
PrivacyTableWitness ==
    /\ last.op = "list_user_stories"
    /\ last.actor # last.target
    /\ close_friends = {}
    /\ \E sid \in last.returned :
          stories[sid].privacy = "private" /\ InSeq(last.actor, stories[sid].viewers)

\* ================================================== interaction specification
\* User 1 posts stories of every tier, with or without a poll and a quiz of two
\* options, and archives them; both users react, comment, vote and answer.
Interactions == {"react_to_story", "comment_on_story", "vote_poll", "record_answer_for_quiz"}

InteractionRows == <<reactions, comments, responses>>

NextInteract ==
    \/ \E p \in Privacies, n \in {0, 2} :
          nextStory <= IntMaxStories /\ confirm_story(1, p, n, n)
    \/ \E sid \in DOMAIN stories : archive_story(stories[sid].user_id, sid)
    \/ \E u \in Users, sid \in Issued : react_to_story(u, sid, "like")
    \/ \E u \in Users, sid \in Issued :
          Len(comments) < IntMaxComments /\ comment_on_story(u, sid, "hi")
    \/ \E u \in Users, sid \in Issued, option \in {0, 1} : vote_poll(u, sid, option)
    \/ \E u \in Users, sid \in Issued, option \in {0, 1} :
          record_answer_for_quiz(u, sid, option)

SpecInteract == InitSocial /\ [][NextInteract]_vars

\* C8: for a user who is not the story's owner, react_to_story,
\* comment_on_story, vote_poll and record_answer_for_quiz succeed only if the
\* user is eligible to view the story under the privacy table.
OneEligibilityDecision ==
    [][(/\ last'.op \in Interactions
        /\ last'.status = 201
        /\ stories[last'.target].user_id # last'.actor) =>
            TableEligible(last'.actor, stories[last'.target])]_vars

\* a request the sticker handlers are to accept: a non-owner who has not yet
\* responded to the story's sticker of that type names one of its options
StickerAcceptable(u, sid, option, type) ==
    /\ Exists(sid) /\ stories[sid].user_id # u
    /\ 0 <= option /\ option < StickerOptions(stories[sid], type)
    /\ ~\E r \in responses : r.story_id = sid /\ r.type = type /\ r.user_id = u

\* the request stored exactly one response, or was rejected and stored none
StickerOutcome(u, sid, option, type) ==
    IF StickerAcceptable(u, sid, option, type)
      THEN /\ last'.status = 201
           /\ responses' = responses \cup
                 {[story_id |-> sid, type |-> type, user_id |-> u, selected_option |-> option]}
      ELSE last'.status = 400 /\ responses' = responses

\* C39: vote_poll and record_answer_for_quiz accept every option index i
\* with 0 <= i < number of options from a non-owner who has not yet responded
\* to that sticker, storing exactly one StickerResponse, and reject every
\* other index and every second response by the same user, so each
\* (sticker, user) pair has at most one response.
StickerResponsesOnce ==
    /\ [](\A r, q \in responses :
             (r.story_id = q.story_id /\ r.type = q.type /\ r.user_id = q.user_id) => r = q)
    /\ [][\A u \in Users, sid \in Issued, option \in {0, 1} :
             /\ vote_poll(u, sid, option) => StickerOutcome(u, sid, option, "poll")
             /\ record_answer_for_quiz(u, sid, option)
                    => StickerOutcome(u, sid, option, "quiz")]_vars

\* C9: when the acting user is the story's owner, react_to_story,
\* comment_on_story, vote_poll and record_answer_for_quiz always return the
\* own-story error and create no reaction, comment or sticker-response row.
SelfInteractionAlwaysOwnStory ==
    [][(/\ last'.op \in Interactions
        /\ Exists(last'.target)
        /\ stories[last'.target].user_id = last'.actor) =>
            /\ last'.tag = "own_story"
            /\ UNCHANGED InteractionRows]_vars

\* ======================================================= ledger specification
\* Public stories of user 1, promoted into folder "A" by their owner, are
\* listed by both users through list_user_stories and get_highlights, by
\* requests that run alone and by requests of two slots that interleave.
NextLedger ==
    \/ nextStory <= LedgerMaxStories /\ confirm_story(1, "public", 0, 0)
    \/ upload_default_cover_image(1, "c1")
    \/ \E keys \in IdLists : create_highlight(1, "A", "c1", keys)
    \/ \E viewer \in Users : list_user_stories(1, viewer)
    \/ \E viewer \in Users : get_highlights(1, viewer, "A")
    \/ \E p \in Slots, viewer \in Users : list_user_stories_begin(p, 1, viewer)
    \/ \E p \in Slots, viewer \in Users : get_highlights_begin(p, 1, viewer, "A")
    \/ \E p \in Slots : session_commit(p)

SpecLedger == Init /\ [][NextLedger]_vars

NoDuplicateViewers ==
    \A sid \in DOMAIN stories :
        \A i, j \in 1..Len(stories[sid].viewers) :
            stories[sid].viewers[i] = stories[sid].viewers[j] => i = j

\* C10: a request whose viewer is in the viewers list it read leaves that list
\* unchanged when it commits, and in every interleaving of list_user_stories
\* and get_highlights requests no viewer id occurs more than once in a
\* story's viewers list.
ViewerLedgerIdempotent ==
    /\ []NoDuplicateViewers
    /\ [][\A p \in Slots :
            (sessions[p] # Idle /\ sessions'[p] = Idle) =>
                \A sid \in DOMAIN sessions[p].seen :
                    InSeq(sessions[p].viewer, sessions[p].seen[sid]) =>
                        (sid \in DOMAIN stories'
                         /\ stories'[sid].viewers = stories[sid].viewers)]_vars

\* two requests of the same viewer have read the same empty viewers list, and
\* the first of them has committed its append
ViewerLedgerIdempotentWitness ==
    \E sid \in DOMAIN stories :
        /\ Len(stories[sid].viewers) = 1
        /\ \E p \in Slots :
              /\ sessions[p] # Idle
              /\ sid \in DOMAIN sessions[p].seen
              /\ sessions[p].seen[sid] = <<>>
              /\ sessions[p].viewer = stories[sid].viewers[1]
              /\ last.op = sessions[p].op /\ last.status = 200

\* C11: once a request recording viewer v on story s has committed, v stays in
\* s.viewers in every later state in which the story's row exists, also when
\* requests of different viewers for the same story interleave their reads
\* and their commits.
ViewersAppendOnly ==
    [][\A sid \in DOMAIN stories :
          sid \in DOMAIN stories' =>
              \A v \in Users :
                  InSeq(v, stories[sid].viewers) => InSeq(v, stories'[sid].viewers)]_vars

\* C12: list_user_stories called with viewer_id equal to the listed user leaves
\* every story's viewers list unchanged, and no story's viewers list holds the
\* id of the story's owner.
SelfViewsNotRecorded ==
    /\ [](\A sid \in DOMAIN stories : ~InSeq(stories[sid].user_id, stories[sid].viewers))
    /\ [][(last'.op = "list_user_stories" /\ last'.actor = last'.target) =>
              \A sid \in DOMAIN stories :
                  sid \in DOMAIN stories' /\ stories'[sid].viewers = stories[sid].viewers]_vars

\* C13: delete_story by the owner sets deleted_at = now and moves expires_at to
\* before now; on a story that is already past its expiry it is a no-op that
\* leaves every field of the story, deleted_at in particular, unchanged.
SoftDeleteNoOpWhenExpired ==
    [][\A sid \in DOMAIN stories :
          delete_story(stories[sid].user_id, sid) =>
              IF stories[sid].expires_at <= now
                THEN stories' = stories
                ELSE /\ stories'[sid].deleted_at = Some(now)
                     /\ stories'[sid].expires_at < now]_vars

\* ====================================================== restore specification
\* User 1 posts public and private stories that are viewed, archived,
\* soft-deleted and restored, the restore being requested by either user, on
\* the day of the delete and on the days after it.
NextRestore ==
    \/ ticks < RestMaxTicks /\ Tick(LifetimeDays)
    \/ \E p \in {"public", "private"} :
          nextStory <= RestMaxStories /\ confirm_story(1, p, 0, 0)
    \/ \E sid \in DOMAIN stories : list_user_stories(stories[sid].user_id, 2)
    \/ \E sid \in DOMAIN stories : archive_story(stories[sid].user_id, sid)
    \/ \E sid \in DOMAIN stories : delete_story(stories[sid].user_id, sid)
    \/ \E u \in Users, sid \in Issued : restore_story_from_recently_deleted(u, sid)

SpecRestore == Init /\ [][NextRestore]_vars

\* C14: restore_story_from_recently_deleted by the owner on a story with
\* deleted_at set clears deleted_at and sets expires_at = created_at + 24h; the
\* story's other fields (archive, highlight, privacy, viewers) and all other
\* rows stay as they were.
RestoreResetsExpiry ==
    [][\A u \in Users, sid \in DOMAIN stories :
          (/\ stories[sid].user_id = u
           /\ stories[sid].deleted_at # Null
           /\ restore_story_from_recently_deleted(u, sid)) =>
              /\ DOMAIN stories' = DOMAIN stories
              /\ stories'[sid] = [stories[sid] EXCEPT
                                    !.deleted_at = Null,
                                    !.expires_at = stories[sid].created_at + 1]
              /\ \A i \in (DOMAIN stories) \ {sid} : stories'[i] = stories[i]
              /\ UNCHANGED <<highlights, objects, reactions, comments, responses>>]_vars

\* a story deleted after its creation day has just been restored by its owner
RestoreResetsExpiryWitness ==
    /\ last.op = "restore_story" /\ last.status = 200
    /\ Exists(last.target)
    /\ stories[last.target].user_id = last.actor
    /\ stories[last.target].deleted_at = Null
    /\ stories[last.target].created_at < now

\* ==================================================== ownership specification
\* Each user posts one story and makes a folder "A" with edit_highlight_folder;
\* every explicit transition is requested by either user on any story, row or
\* folder, with working storage.
NextOwnership ==
    \/ \E u \in Users :
          /\ nextStory <= OwnMaxStories
          /\ \A sid \in DOMAIN stories : stories[sid].user_id # u
          /\ confirm_story(u, "public", 0, 0)
    \/ \E u \in Users, sid \in Issued :
          nextHl <= OwnMaxRows /\ add_to_highlights(u, sid, "A", "c1")
    \/ \E u \in Users, sid \in Issued : delete_story(u, sid)
    \/ \E u \in Users, sid \in Issued : archive_story(u, sid)
    \/ \E u \in Users, sid \in Issued : restore_story_from_recently_deleted(u, sid)
    \/ \E u \in Users, sid \in Issued : delete_story_from_recently_deleted(u, sid)
    \/ \E u \in Users, sid \in Issued : delete_story_from_archive(u, sid)
    \/ \E u \in Users, sid \in Issued : remove_story_from_highlights(u, sid, {})
    \/ \E u \in Users, hid \in 1..(nextHl - 1) : remove_highlight_from_highlights(u, hid, {})
    \/ \E u \in Users, k \in Covers : archive_highlight_folder(u, "A", k)
    \/ \E u \in Users, k \in Covers : unarchive_highight_folder(u, "A", k)
    \/ \E u \in Users : delete_highlight_folder(u, "A", {})
    \/ \E u \in Users, k \in Covers, sel \in IdLists :
          /\ nextHl + Len(sel) <= OwnMaxRows + 1
          /\ Len(sel) <= 1
          /\ edit_highlight_folder(u, "A", k, "A", "c1", sel, <<>>, {})

SpecOwnership == Init /\ [][NextOwnership]_vars

\* the explicit transitions, by the op of their response
ExplicitTransitions ==
    {"delete_story", "archive_story", "restore_story",
     "delete_story_from_recently_deleted", "delete_story_from_archive",
     "create_highlight", "add_to_highlights",
     "remove_story_from_highlights", "remove_highlight_from_highlights",
     "archive_highlight_folder", "unarchive_highight_folder",
     "delete_highlight_folder", "edit_highlight_folder"}

\* C15: an explicit transition requested with a user id changes no field of a
\* Story row of another owner and no field of a Highlight row of another
\* owner's story, the rename of edit_highlight_folder by (old_name,
\* old_cover_image_key) included.
OwnershipBeforeMutation ==
    [][last'.op \in ExplicitTransitions =>
          /\ \A sid \in DOMAIN stories :
                stories[sid].user_id # last'.actor =>
                    (sid \in DOMAIN stories' /\ stories'[sid] = stories[sid])
          /\ \A h \in highlights :
                OwnerOf(h) # last'.actor => h \in highlights']_vars

\* ======================================================= atomic specification
\* User 1 posts, makes folder "A" and takes stories out of it again while the
\* object store fails on any of the keys a request deletes.
StorageKeys == {CoverKey("c1")} \cup UNION {{MediaKey(i), ThumbKey(i)} : i \in Issued}

NextAtomic ==
    \/ ticks < AtomMaxTicks /\ Tick(RetentionDays)
    \/ nextStory <= AtomMaxStories /\ confirm_story(1, "public", 0, 0)
    \/ upload_default_cover_image(1, "c1")
    \/ \E sid \in Issued : nextHl <= AtomMaxRows /\ create_highlight(1, "A", "c1", <<sid>>)
    \/ \E sid \in Issued : delete_story(1, sid)
    \/ \E hid \in 1..(nextHl - 1), fails \in SUBSET StorageKeys :
          remove_highlight_from_highlights(1, hid, fails)
    \/ \E sid \in Issued, fails \in SUBSET StorageKeys :
          remove_story_from_highlights(1, sid, fails)
    \/ \E fails \in SUBSET StorageKeys : delete_highlight_folder(1, "A", fails)
    \/ \E sid \in Issued, fails \in SUBSET StorageKeys :
          edit_highlight_folder(1, "A", "c1", "A", "c1", <<>>, <<sid>>, fails)

SpecAtomic == Init /\ [][NextAtomic]_vars

\* C16: every request that ends with an error response (status 400 or above)
\* leaves the relational store exactly as it was before the request.
AllOrNothing ==
    [][last'.status >= 400 =>
          UNCHANGED <<stories, highlights, reactions, comments, responses>>]_vars

\* ======================================================= removal specification
\* User 1 fills folder "A" with up to three stories and takes them out again,
\* by row and by story, before and after the stories expire; the deletion of
\* the cover image may fail.
NextRemove ==
    \/ ticks < RemMaxTicks /\ Tick(RetentionDays)
    \/ nextStory <= RemMaxStories /\ confirm_story(1, "public", 0, 0)
    \/ upload_default_cover_image(1, "c1")
    \/ \E keys \in IdLists :
          nextHl + Len(keys) <= RemMaxRows + 1 /\ create_highlight(1, "A", "c1", keys)
    \/ \E sid \in DOMAIN stories :
          nextHl <= RemMaxRows /\ add_to_highlights(1, sid, "A", "c1")
    \/ \E h \in highlights, fails \in SUBSET {CoverKey("c1")} :
          remove_highlight_from_highlights(1, h.id, fails)
    \/ \E h \in highlights, fails \in SUBSET {CoverKey("c1")} :
          remove_story_from_highlights(1, h.story_id, fails)

SpecRemove == Init /\ [][NextRemove]_vars

RemovalOps == {"remove_highlight_from_highlights", "remove_story_from_highlights"}

\* the row a removal request names: by its id, or by its story
RemovalTarget(r) ==
    {h \in highlights : IF r.op = "remove_highlight_from_highlights"
                          THEN h.id = r.target ELSE h.story_id = r.target}

\* C17: a removal that commits deletes the row it names and, in the same
\* commit, gives every other member of that row's group (orders 1..N) the
\* order it had, less 1 if it was behind the removed row; a removal that does
\* not delete the row changes no row.
RemoveRenumbers ==
    [][last'.op \in RemovalOps =>
          \/ highlights' = highlights
          \/ \E h \in RemovalTarget(last') :
                /\ \A g \in highlights' : g.id # h.id
                /\ {g.order : g \in GroupOf(h)} = 1..Cardinality(GroupOf(h)) =>
                      \A g \in GroupOf(h) \ {h} :
                          [g EXCEPT !.order = IF g.order > h.order THEN g.order - 1
                                              ELSE g.order] \in highlights']_vars

\* rows 1, 2, 3 were made in this order and row 2 has just been removed:
\* [1, 2, 3] without the member at 2 is [1, 2]
RemoveRenumbersWitness ==
    /\ last.op \in RemovalOps /\ last.status = 200
    /\ nextHl = 4
    /\ \A h \in highlights : h.id # 2
    /\ \E g1, g3 \in highlights :
          g1.id = 1 /\ g1.order = 1 /\ g3.id = 3 /\ g3.order = 2

\* ========================================================= feed specification
\* User 2 is the viewer.  A behaviour starts with any accepted follower row
\* of user 2 towards user 1, blocked or not, any follower row of user 2 towards
\* user 2, and any close-friends rows of users 1 and 2 naming user 2.  User 1
\* posts stories of every tier, user 2 public ones; they archive and delete
\* them; user 2 reads first and later pages of the feed.
InitFeed ==
    /\ InitStore
    /\ \E toAuthor \in {{}} \cup {{f} : f \in {g \in FollowerRows : g.status = "accepted"}},
          toSelf \in SUBSET {[follower_id |-> 2, following_id |-> 2,
                              status |-> "accepted", blocked |-> FALSE]} :
          followers = toAuthor \cup toSelf
    /\ close_friends \in SUBSET {<<1, 2>>, <<2, 2>>}

FeedCursors == {Null} \cup {Some(stories[sid].created_at) : sid \in DOMAIN stories}

NextFeed ==
    \/ ticks < FeedMaxTicks /\ Tick(LifetimeDays)
    \/ \E p \in Privacies : nextStory <= FeedMaxStories /\ confirm_story(1, p, 0, 0)
    \/ nextStory <= FeedMaxStories /\ confirm_story(2, "public", 0, 0)
    \/ \E sid \in DOMAIN stories : archive_story(stories[sid].user_id, sid)
    \/ \E sid \in DOMAIN stories : delete_story(stories[sid].user_id, sid)
    \/ \E limit \in {1, 2, 3}, cursor \in FeedCursors : get_feed(2, limit, cursor)

SpecFeed == InitFeed /\ [][NextFeed]_vars

\* C18: every feed response has the viewer's own entry as its first element,
\* whether or not the viewer has a story, on the first page and on every
\* later page.
FeedSelfEntryFirst ==
    last.op = "get_feed" =>
        /\ Len(last.feed) >= 1
        /\ last.feed[1].user_id = last.actor
        /\ last.feed[1].is_current_user

\* C19: a feed entry that is not the viewer's own names an author who has an
\* Active story the viewer is eligible to view under the privacy table.
FeedPrivacy ==
    last.op = "get_feed" =>
        \A k \in 1..Len(last.feed) :
            ~last.feed[k].is_current_user =>
                \E sid \in DOMAIN stories :
                    /\ stories[sid].user_id = last.feed[k].user_id
                    /\ Active(stories[sid], now)
                    /\ TableEligible(last.actor, stories[sid])

\* C20: no author id occurs in more than one entry of a feed page, the
\* viewer's own id included.
FeedDeduplicated ==
    last.op = "get_feed" =>
        \A i, j \in 1..Len(last.feed) :
            last.feed[i].user_id = last.feed[j].user_id => i = j

\* the Active stories of author a that the viewer may view under the privacy table
EligibleStories(viewer, a) ==
    {sid \in FeedStories(a) :
        Active(stories[sid], now) /\ TableEligible(viewer, stories[sid])}

FeedDescending ==
    last.op = "get_feed" =>
        \A i, j \in 1..Len(last.feed) :
            (i < j /\ ~last.feed[i].is_current_user /\ ~last.feed[j].is_current_user)
                => last.feed[i].last_story_time[1] >= last.feed[j].last_story_time[1]

\* C21: the entries of a feed page that are not the viewer's own come in
\* descending order of last_story_time, and the last_story_time and privacy of
\* each are the created_at and privacy of that author's most recent Active
\* story the viewer is eligible to view.
FeedOrderingKey ==
    /\ FeedDescending
    /\ last.op = "get_feed" =>
        \A k \in 1..Len(last.feed) :
            ~last.feed[k].is_current_user =>
                \E sid \in EligibleStories(last.actor, last.feed[k].user_id) :
                    /\ \A x \in EligibleStories(last.actor, last.feed[k].user_id) :
                          stories[x].created_at <= stories[sid].created_at
                    /\ last.feed[k].last_story_time = Some(stories[sid].created_at)
                    /\ last.feed[k].privacy = Some(stories[sid].privacy)

\* the entries of a page that carry a last_story_time
Timed(feed) == {k \in 1..Len(feed) : feed[k].last_story_time # Null}

PageDecreasing ==
    last.op = "get_feed" =>
        \A i, j \in Timed(last.feed) :
            i < j => last.feed[i].last_story_time[1] > last.feed[j].last_story_time[1]

\* a request for the next page: the same viewer sends the next_cursor of the
\* response just received, and nothing was written in between
FollowsCursor ==
    /\ last.op = "get_feed" /\ last'.op = "get_feed"
    /\ last'.actor = last.actor
    /\ last.next_cursor # Null
    /\ last'.cursor = last.next_cursor

PagesDecreasing ==
    FollowsCursor =>
        /\ \A i \in Timed(last.feed), j \in Timed(last'.feed) :
              last.feed[i].last_story_time[1] > last'.feed[j].last_story_time[1]
        /\ \A i \in 1..Len(last.feed), j \in 1..Len(last'.feed) :
              last.feed[i].user_id # last'.feed[j].user_id

\* C22: when a client follows next_cursor from page to page with nothing
\* written in between, whatever the page sizes, the last_story_time values of
\* the returned entries strictly decrease within each page and from one page
\* to the next, and no author is returned on two pages.
FeedPaginationMonotonic == []PageDecreasing /\ [][PagesDecreasing]_vars

\* ------------------------------------------------------------ feed pages
\* Users 1 and 2 post public stories, a day passes, and user 2 reads first
\* and later pages of the feed, of 1, 2 or 3 entries.
NextPages ==
    \/ ticks < PageMaxTicks /\ Tick(LifetimeDays)
    \/ \E u \in Users : nextStory <= PageMaxStories /\ confirm_story(u, "public", 0, 0)
    \/ \E limit \in {1, 2, 3}, cursor \in FeedCursors : get_feed(2, limit, cursor)

SpecPages == InitFeed /\ [][NextPages]_vars

\* the authors the feed of the viewer is to name: followed (accepted, not
\* blocked) or naming the viewer a close friend, with an Active story the
\* viewer may view
FeedAudience(viewer) ==
    {a \in Users \ {viewer} :
        /\ IsFollower(viewer, a) \/ IsCloseFriend(viewer, a)
        /\ EligibleStories(viewer, a) # {}}

\* has_more of a response: len(feed_data) == limit
HasMore(r) == Len(r.feed) = r.target

\* the entries of a page that name author a
EntriesOf(a, feed) == {k \in 1..Len(feed) : feed[k].user_id = a}

\* the first page was the last one
FeedOnePage ==
    (last.op = "get_feed" /\ last.cursor = Null /\ ~HasMore(last)) =>
        \A a \in FeedAudience(last.actor) : Cardinality(EntriesOf(a, last.feed)) = 1

\* the second page, asked for with the first page's next_cursor, was the last one
FeedTwoPages ==
    (FollowsCursor /\ last.cursor = Null /\ HasMore(last) /\ ~HasMore(last')) =>
        \A a \in FeedAudience(last.actor) :
            Cardinality(EntriesOf(a, last.feed)) + Cardinality(EntriesOf(a, last'.feed)) = 1

\* C37: following next_cursor until has_more is false, with no intervening
\* writes and any page size >= 1, returns every author who has an Active
\* story the viewer may see exactly once, including authors whose latest
\* stories have the same created_at as the last entry of a page and authors
\* whose latest story is newer than the viewer's own latest story.
FeedComplete == []FeedOnePage /\ [][FeedTwoPages]_vars

\* ------------------------------------------------------------ unseen marker
\* User 1 posts stories of every tier; user 2, with any follower row towards
\* user 1 and with or without a close-friends row of user 1, lists the
\* stories of user 1 and reads the first page of the feed.
NextUnseen ==
    \/ ticks < UnseenMaxTicks /\ Tick(LifetimeDays)
    \/ \E p \in Privacies : nextStory <= UnseenMaxStories /\ confirm_story(1, p, 0, 0)
    \/ list_user_stories(1, 2)
    \/ \E limit \in {2, 3} : get_feed(2, limit, Null)

SpecUnseen == InitSocial /\ [][NextUnseen]_vars

\* C38: after viewer V has called list_user_stories for author A, and until
\* A posts a new story, V's feed entry for A has has_new_stories = false, also
\* when A has Active stories that V is not eligible to view.
ViewingClearsUnseen ==
    [][(/\ last.op = "list_user_stories" /\ last.status = 200
        /\ last'.op = "get_feed" /\ last'.actor = last.actor) =>
          \A k \in 1..Len(last'.feed) :
              (last'.feed[k].user_id = last.target /\ ~last'.feed[k].is_current_user)
                  => ~last'.feed[k].has_new_stories]_vars

\* ---------------------------------------------------------------- listings
\* User 1 posts, archives, deletes and highlights stories; either user asks
\* for the story list, the highlight folder, the archive listing and the feed.
NextHidden ==
    \/ ticks < HidMaxTicks /\ Tick(LifetimeDays)
    \/ nextStory <= HidMaxStories /\ confirm_story(1, "public", 0, 0)
    \/ \E sid \in DOMAIN stories : archive_story(1, sid)
    \/ \E sid \in DOMAIN stories : delete_story(1, sid)
    \/ upload_default_cover_image(1, "c1")
    \/ \E sid \in Issued : nextHl <= HidMaxRows /\ create_highlight(1, "A", "c1", <<sid>>)
    \/ \E viewer \in Users : list_user_stories(1, viewer)
    \/ \E viewer \in Users : get_highlights(1, viewer, "A")
    \/ list_archived_stories(1)
    \/ \E viewer \in Users : get_feed(viewer, 2, Null)

SpecHidden == InitSocial /\ [][NextHidden]_vars

ListingsHideDeleted(ops) ==
    (last.op \in ops /\ last.status = 200) =>
        \A sid \in last.returned : stories[sid].deleted_at = Null

FeedHidesDeleted ==
    last.op = "get_feed" =>
        \A k \in Timed(last.feed) :
            /\ \E sid \in FeedStories(last.feed[k].user_id) :
                  /\ stories[sid].deleted_at = Null
                  /\ last.feed[k].last_story_time = Some(stories[sid].created_at)
            /\ \E sid \in FeedStories(last.feed[k].user_id) :
                  /\ stories[sid].deleted_at = Null
                  /\ last.feed[k].privacy = Some(stories[sid].privacy)

\* C23: a story with deleted_at set is in no list_user_stories result, no
\* archived-stories listing and no get_highlights result, and no feed entry
\* takes its last_story_time or its privacy from it, whatever its archive,
\* highlight and expires_at values are.
SoftDeletedHidden ==
    /\ ListingsHideDeleted({"list_user_stories", "list_archived_stories", "get_highlights"})
    /\ FeedHidesDeleted

\* C24: in every reachable state every story with highlight = TRUE, and every
\* story a Highlight row refers to, has archive = TRUE or expires_at <= now;
\* create_highlight and add_to_highlights do not accept an Active story.
HighlightsBindInactive ==
    /\ \A sid \in DOMAIN stories :
          stories[sid].highlight =>
              (stories[sid].archive \/ stories[sid].expires_at <= now)
    /\ \A h \in highlights :
          h.story_id \in DOMAIN stories =>
              (stories[h.story_id].archive \/ stories[h.story_id].expires_at <= now)

\* --------------------------------------------- removals that interleave
\* remove_highlight_from_highlights in slot p, in two steps: its queries, its
\* loop over post_highlights and its media deletions, which leave the new
\* order values, the story's change and the row's deletion pending in the
\* session; then its commit and what follows the commit.

\* mutant: the loop over post_highlights assigns nothing
PendingOrdersNone(h) == [i \in {} |-> 0]

\* h.order = h.order - 1 for the rows the post_highlights query returned
PendingOrders(h) ==
    [i \in {g.id : g \in PostHighlights(h)} |->
        (CHOOSE g \in highlights : g.id = i).order - 1]

\* overlap records whether another request was open while this one was
RemovalSession(u, h, fails, overlap) ==
    [op |-> "remove_highlight_from_highlights", owner |-> u, viewer |-> h.id,
     seen |-> [row |-> h, orders |-> PendingOrders(h),
               purge |-> (Demote(stories[h.story_id], now) = "purge"),
               fails |-> fails, overlap |-> overlap]]

remove_highlight_begin(p, u, hid, fails) ==
    /\ sessions[p].op = "idle"
    /\ IF {h \in highlights : h.id = hid /\ OwnerOf(h) = u} = {}
         THEN /\ last' = Resp("remove_highlight_from_highlights", u, hid, 400, "not_found")
              /\ UNCHANGED <<sessions, objects>>
         ELSE LET h == CHOOSE g \in highlights : g.id = hid
                  sid == h.story_id
                  purge == Demote(stories[sid], now) = "purge"
                  busy == \E q \in Slots : sessions[q].op # "idle"
              IN /\ objects' = objects \ (IF purge THEN MediaDeleted(sid, fails) ELSE {})
                 /\ IF purge /\ ~MediaDeletionOk(sid, fails)
                      THEN /\ last' = [Resp("remove_highlight_from_highlights", u, hid, 502, "upstream")
                                         EXCEPT !.fails = fails]
                           /\ UNCHANGED sessions
                      ELSE /\ sessions' = [q \in Slots |->
                                 IF q = p THEN RemovalSession(u, h, fails, busy)
                                 ELSE IF sessions[q].op = "remove_highlight_from_highlights"
                                   THEN [sessions[q] EXCEPT !.seen.overlap = TRUE]
                                   ELSE sessions[q]]
                           /\ UNCHANGED last
    /\ UNCHANGED <<now, ticks, users, stories, nextStory, highlights, nextHl>>
    /\ UNCHANGED <<followers, close_friends, reactions, comments, responses>>

\* an UPDATE of a row that is gone matches no row: the flush raises and the
\* handler rolls back
RemovalStale(ses) ==
    \/ \E i \in DOMAIN ses.orders : \A g \in highlights : g.id # i
    \/ ses.row.story_id \notin DOMAIN stories

\* the rows after the session's UPDATEs and its DELETE
RemovalWritten(ses) ==
    {g \in {IF r.id \in DOMAIN ses.orders THEN [r EXCEPT !.order = ses.orders[r.id]] ELSE r :
               r \in highlights} : g.id # ses.row.id}

remove_highlight_commit(p) ==
    /\ sessions[p].op = "remove_highlight_from_highlights"
    /\ LET ses == sessions[p].seen
           h == ses.row
           sid == h.story_id
           gone == IF ses.purge THEN {sid} ELSE {}
           left == CascadeHighlights(RemovalWritten(ses), gone)
           coverLeft == {g \in left : g.name = h.name
                                      /\ g.cover_image_key = h.cover_image_key}
           coverFails == coverLeft = {} /\ CoverKey(h.cover_image_key) \in ses.fails
       IN IF RemovalStale(ses)
            THEN /\ last' = Resp("remove_highlight_from_highlights",
                                 sessions[p].owner, h.id, 500, "internal")
                 /\ UNCHANGED <<stories, highlights, objects, reactions, comments>>
            ELSE /\ stories' = IF ses.purge THEN DropStory(stories, sid)
                               ELSE [stories EXCEPT ![sid].highlight = FALSE]
                 /\ highlights' = left
                 /\ reactions' = CascadeReactions(reactions, gone)
                 /\ comments' = CascadeComments(comments, gone)
                 /\ objects' = objects \ (IF coverLeft = {} /\ ~coverFails
                                            THEN {CoverKey(h.cover_image_key)} ELSE {})
                 /\ last' = [Resp("remove_highlight_from_highlights", sessions[p].owner, h.id,
                                  IF coverFails THEN 502 ELSE 200,
                                  IF coverFails THEN "upstream" ELSE "ok")
                               EXCEPT !.fails = ses.fails]
    /\ sessions' = [sessions EXCEPT ![p] = Idle]
    /\ UNCHANGED <<now, ticks, users, nextStory, nextHl>>
    /\ UNCHANGED <<followers, close_friends, responses>>

NoRemovalOpen == \A p \in Slots : sessions[p].op = "idle"

\* User 1 builds one folder of up to three stories while no removal is open;
\* removals of its rows run in two slots and interleave freely.
NextRace ==
    \/ nextStory <= RaceMaxStories /\ confirm_story(1, "public", 0, 0)
    \/ upload_default_cover_image(1, "c1")
    \/ \E keys \in IdLists :
          /\ NoRemovalOpen /\ nextHl + Len(keys) <= RaceMaxRows + 1
          /\ create_highlight(1, "A", "c1", keys)
    \/ \E sid \in DOMAIN stories :
          /\ NoRemovalOpen /\ nextHl <= RaceMaxRows
          /\ add_to_highlights(1, sid, "A", "c1")
    \/ \E p \in Slots, hid \in 1..(nextHl - 1) : remove_highlight_begin(p, 1, hid, {})
    \/ \E p \in Slots : remove_highlight_commit(p)

SpecRace == Init /\ [][NextRace]_vars

Dense(rows) == {g.order : g \in rows} = 1..Cardinality(rows)

FolderA == {g \in highlights : g.name = "A" /\ g.cover_image_key = "c1"}

\* C25: a removal that reads the group, decrements the successors, deletes
\* its row and commits while no other removal is open takes a group with
\* orders 1..N to one with orders 1..N-1, so two removals one after the other
\* leave 1..N-2; two removals of different members whose reads and commits
\* interleave can commit a group whose orders are not 1..N-2 (the witness).
RacingRemovals ==
    [][\A p \in Slots :
          (/\ sessions[p].op = "remove_highlight_from_highlights"
           /\ sessions'[p].op = "idle"
           /\ ~sessions[p].seen.overlap
           /\ Dense(FolderA))
          => /\ last'.status = 200
             /\ Cardinality(FolderA') = Cardinality(FolderA) - 1
             /\ Dense(FolderA')]_vars

\* both removals of a three-member folder have committed, each answered 200,
\* and the member left does not have order 1
RacingRemovalsWitness ==
    /\ last.op = "remove_highlight_from_highlights" /\ last.status = 200
    /\ \A p \in Slots : sessions[p].op = "idle"
    /\ nextHl = 4
    /\ Cardinality(FolderA) = 1
    /\ ~Dense(FolderA)

\* the rows of owner u with the name and cover of row h, before the call
GroupBefore(u, h) ==
    {g \in highlights : /\ OwnerOf(g) = u /\ g.name = h.name
                        /\ g.cover_image_key = h.cover_image_key}

\* C26: an add_to_highlights call that succeeds creates one row in a group
\* (owner, name, cover_image_key) that existed before the call, with order
\* N + 1 when that group had the orders 1..N, and sets the story's highlight
\* flag; a call rejected because the owner has no folder of that name changes
\* no Story and no Highlight row.
AddAppends ==
    [][last'.op = "add_to_highlights" =>
          /\ last'.status = 201 =>
                \E h \in highlights' \ highlights :
                    /\ highlights' = highlights \cup {h}
                    /\ h.story_id = last'.target
                    /\ stories'[h.story_id].highlight
                    /\ GroupBefore(last'.actor, h) # {}
                    /\ Dense(GroupBefore(last'.actor, h)) =>
                          h.order = Cardinality(GroupBefore(last'.actor, h)) + 1
          /\ last'.tag = "no_folder" =>
                stories' = stories /\ highlights' = highlights]_vars

RowsOfOwner(H, S, u) == {h \in H : h.story_id \in DOMAIN S /\ S[h.story_id].user_id = u}

OneGroup(rows) ==
    \A g, h \in rows : g.name = h.name /\ g.cover_image_key = h.cover_image_key

\* C27: an edit_highlight_folder call that succeeds on the caller's one group
\* with orders 1..N leaves a group with orders exactly 1..M, in which the
\* members kept have the relative order they had and the members added come
\* after all of them.
BulkEditKeepsOrder ==
    [][(last'.op = "edit_highlight_folder" /\ last'.status = 200) =>
          LET before == RowsOfOwner(highlights, stories, last'.actor)
              after == RowsOfOwner(highlights', stories', last'.actor)
          IN (before # {} /\ OneGroup(before) /\ Dense(before) /\ OneGroup(after)) =>
                /\ Dense(after)
                /\ \A g, h \in before, g2, h2 \in after :
                      (g2.id = g.id /\ h2.id = h.id /\ g.order < h.order)
                          => g2.order < h2.order
                /\ \A new, kept \in after :
                      ((\A b \in before : b.id # new.id) /\ (\E b \in before : b.id = kept.id))
                          => new.order > kept.order]_vars

\* ------------------------------------------------------------------ rename
Names == {"A", "B"}

\* Folders 'A' are built by either user; edit_highlight_folder is called with
\* empty selected_ids and deselected_ids, to rename or re-key only.
NextRename ==
    \/ \E u \in Users : nextStory <= RenMaxStories /\ confirm_story(u, "public", 0, 0)
    \/ \E u \in Users : upload_default_cover_image(u, "c1")
    \/ \E u \in Users, keys \in IdLists :
          nextHl + Len(keys) <= RenMaxRows + 1 /\ create_highlight(u, "A", "c1", keys)
    \/ \E sid \in DOMAIN stories :
          nextHl <= RenMaxRows /\ add_to_highlights(stories[sid].user_id, sid, "A", "c1")
    \/ \E u \in Users, name \in Names, k \in Covers, old \in Names, ok \in Covers :
          edit_highlight_folder(u, name, k, old, ok, <<>>, <<>>, {})

SpecRename == Init /\ [][NextRename]_vars

DemotedBy(r) == {h.story_id : h \in RemovalTarget(r)}

\* C29: a removal from highlights that succeeds, through
\* remove_story_from_highlights or remove_highlight_from_highlights, purges
\* the story in that same action (media objects and row) when the story is
\* expired, has archive = FALSE and is outside its 30-day soft-delete window;
\* otherwise it keeps the story and only clears its highlight flag.
DemotionReevaluates ==
    [][(last'.op \in RemovalOps /\ last'.status = 200) =>
          \A sid \in DemotedBy(last') :
              IF Demote(stories[sid], now) = "purge"
                THEN /\ sid \notin DOMAIN stories'
                     /\ MediaKey(sid) \notin objects' /\ ThumbKey(sid) \notin objects'
                ELSE /\ sid \in DOMAIN stories'
                     /\ stories'[sid] = [stories[sid] EXCEPT !.highlight = FALSE]]_vars

\* ---------------------------------------------------------- folder deletion
\* the deletions that fail during one request: none, or those of one key
FailureSets == {{}} \cup {{k} : k \in StorageKeys}

\* a story that was neither archived nor deleted
Untouched(sid) == ~stories[sid].archive /\ stories[sid].deleted_at = Null

\* On day 0 user 1 posts stories and archives or deletes some of them; folder
\* 'A' is built and later deleted while a storage deletion may fail.
NextFolder ==
    \/ ticks < FoldMaxTicks /\ Tick(RetentionDays - 1)
    \/ ticks = 0 /\ nextStory <= FoldMaxStories /\ confirm_story(1, "public", 0, 0)
    \/ \E sid \in DOMAIN stories : ticks = 0 /\ Untouched(sid) /\ archive_story(1, sid)
    \/ \E sid \in DOMAIN stories : ticks = 0 /\ Untouched(sid) /\ delete_story(1, sid)
    \/ upload_default_cover_image(1, "c1")
    \/ \E keys \in IdLists :
          nextHl + Len(keys) <= FoldMaxRows + 1 /\ create_highlight(1, "A", "c1", keys)
    \/ \E fails \in FailureSets : delete_highlight_folder(1, "A", fails)

SpecFolder == Init /\ [][NextFolder]_vars

\* unexpired, archived or inside the 30-day soft-delete window
Protected(st, t) ==
    \/ st.expires_at > t
    \/ st.archive
    \/ (st.deleted_at # Null /\ t - st.deleted_at[1] < RetentionDays)

\* C30: after a delete_highlight_folder(owner, 'A') that succeeds none of the
\* folder's rows is left; every member story that is unexpired, archived or
\* inside its soft-delete window is still there, changed only in highlight =
\* FALSE; every other member story is gone together with its two media
\* objects; a call that does not succeed (the folder's cover or a member's
\* media could not be deleted) removes and changes no Story and no Highlight
\* row.
GroupDeletion ==
    [][last'.op = "delete_highlight_folder" =>
          /\ last'.status = 200 =>
                /\ \A h \in FolderRows(last'.actor, "A"), g \in highlights' : g.id # h.id
                /\ \A g \in highlights' :
                      g.story_id \in DOMAIN stories' /\ stories'[g.story_id].user_id = last'.actor
                          => g.name # "A"
                /\ \A sid \in {h.story_id : h \in FolderRows(last'.actor, "A")} :
                      IF Protected(stories[sid], now)
                        THEN /\ sid \in DOMAIN stories'
                             /\ stories'[sid] = [stories[sid] EXCEPT !.highlight = FALSE]
                        ELSE /\ sid \notin DOMAIN stories'
                             /\ MediaKey(sid) \notin objects'
                             /\ ThumbKey(sid) \notin objects'
          /\ last'.status # 200 =>
                stories' = stories /\ highlights' = highlights]_vars

\* a folder of two members has just been deleted: one member was purged, the
\* other is kept without its highlight flag
GroupDeletionWitness ==
    /\ last.op = "delete_highlight_folder" /\ last.status = 200
    /\ nextStory = 3 /\ nextHl = 3
    /\ highlights = {}
    /\ \E sid \in {1, 2} :
          /\ DOMAIN stories = {sid}
          /\ ~stories[sid].highlight
          /\ MediaKey(3 - sid) \notin objects

\* C31: in every reachable state all Highlight rows of one owner that carry
\* the same name carry the same cover_image_key.
SharedCover ==
    \A g, h \in highlights :
        (OwnerOf(g) = OwnerOf(h) /\ g.name = h.name)
            => g.cover_image_key = h.cover_image_key

\* ---------------------------------------------------------- flag and rows
\* selected_ids as a client may send them: an id may occur twice
SelectedLists == IdLists \cup {<<i, i>> : i \in Issued}

\* User 1 builds, edits and empties folder 'A'; the sweep runs in between.
NextFlag ==
    \/ ticks < FlagMaxTicks /\ Tick(RetentionDays)
    \/ nextStory <= FlagMaxStories /\ confirm_story(1, "public", 0, 0)
    \/ upload_default_cover_image(1, "c1")
    \/ \E keys \in IdLists :
          nextHl + Len(keys) <= FlagMaxRows + 1 /\ create_highlight(1, "A", "c1", keys)
    \/ \E sel \in SelectedLists, des \in IdLists :
          /\ nextHl + Len(sel) <= FlagMaxRows + 1
          /\ Len(sel) + Len(des) \in 1..2
          /\ edit_highlight_folder(1, "A", "c1", "A", "c1", sel, des, {})
    \/ \E h \in highlights : remove_highlight_from_highlights(1, h.id, {})
    \/ \E sid \in DOMAIN stories : remove_story_from_highlights(1, sid, {})
    \/ delete_highlight_folder(1, "A", {})
    \/ run_cleanup({})

SpecFlag == Init /\ [][NextFlag]_vars

\* C32: in every reachable state a story has highlight = TRUE iff exactly one
\* Highlight row references it, and every Highlight row references a story
\* that is still in the table (each purge removes the story's rows with it).
FlagAndRowAgree ==
    /\ \A sid \in DOMAIN stories :
          stories[sid].highlight <=> Cardinality(RowsOfStory(sid)) = 1
    /\ \A h \in highlights : h.story_id \in DOMAIN stories

\* ------------------------------------------------- sweep and promotion
\* run_cleanup in slot p, in two steps: its query, its loop and the media
\* deletions of the loop, which leave archive = True and the row deletions
\* pending in its session; then its commit.
run_cleanup_begin(p, fails) ==
    /\ sessions[p].op = "idle"
    /\ sessions' = [sessions EXCEPT ![p] =
          [op |-> "run_cleanup", owner |-> 0, viewer |-> 0,
           seen |-> [archive |-> SweepSet(stories, users, now, "archive"),
                     removed |-> SweepRemoved(stories, users, now, fails)]]]
    /\ objects' = SweepObjects(objects, stories, users, now, fails)
    /\ UNCHANGED <<now, ticks, users, stories, nextStory, highlights, nextHl>>
    /\ UNCHANGED <<followers, close_friends, reactions, comments, responses, last>>

\* the UPDATE of a story that is gone matches no row and the flush raises;
\* otherwise the DELETEs remove the stories and, by the cascade, the rows
\* that reference them at that moment
run_cleanup_commit(p) ==
    /\ sessions[p].op = "run_cleanup"
    /\ LET ses == sessions[p].seen
           gone == ses.removed \cap DOMAIN stories
       IN IF \E sid \in ses.archive : sid \notin DOMAIN stories
            THEN UNCHANGED <<stories, highlights, reactions, comments>>
            ELSE /\ stories' = [i \in (DOMAIN stories) \ gone |->
                                  IF i \in ses.archive THEN [stories[i] EXCEPT !.archive = TRUE]
                                  ELSE stories[i]]
                 /\ highlights' = CascadeHighlights(highlights, gone)
                 /\ reactions' = CascadeReactions(reactions, gone)
                 /\ comments' = CascadeComments(comments, gone)
    /\ last' = Resp("run_cleanup", 0, 0, 0, "none")
    /\ sessions' = [sessions EXCEPT ![p] = Idle]
    /\ UNCHANGED <<now, ticks, users, nextStory, nextHl, objects>>
    /\ UNCHANGED <<followers, close_friends, responses>>

\* The users post stories that expire; the owners promote them to folder 'A'
\* while a sweep may be between its loop and its commit.
NextPromote ==
    \/ ticks < PromoMaxTicks /\ Tick(LifetimeDays)
    \/ \E u \in Users : nextStory <= PromoMaxStories /\ confirm_story(u, "public", 0, 0)
    \/ \E u \in Users : upload_default_cover_image(u, "c1")
    \/ \E sid \in Issued, u \in Users :
          nextHl <= PromoMaxRows /\ create_highlight(u, "A", "c1", <<sid>>)
    \/ \E sid \in DOMAIN stories :
          nextHl <= PromoMaxRows /\ add_to_highlights(stories[sid].user_id, sid, "A", "c1")
    \/ run_cleanup_begin(1, {})
    \/ run_cleanup_commit(1)

SpecPromote == Init /\ [][NextPromote]_vars

HighlightedHaveMedia ==
    \A sid \in DOMAIN stories :
        stories[sid].highlight => {MediaKey(sid), ThumbKey(sid)} \subseteq objects

\* C33: whatever the interleaving of run_cleanup with create_highlight and
\* add_to_highlights, a story whose promotion is committed keeps its media
\* objects, and the commit of a sweep removes no story that has highlight =
\* TRUE at that moment.
SweepSparesPromoted ==
    /\ []HighlightedHaveMedia
    /\ [][(sessions[1].op = "run_cleanup" /\ sessions'[1].op = "idle") =>
             \A sid \in DOMAIN stories :
                 stories[sid].highlight => sid \in DOMAIN stories']_vars

\* ------------------------------------------------- retention specification
\* Stories of both users are archived, soft-deleted from the stories view or
\* from the archive, and swept, while the clock passes the retention window.
\* Storage may fail in a sweep; the sweep with working storage is taken
\* again and again (lambda_handler runs run_cleanup before every request).
\* A story is soft-deleted once, and archived by its owner only before that.
NextPurge ==
    \/ \E d \in TickSteps : ticks < PurgeMaxTicks /\ Tick(d)
    \/ \E u \in Users : nextStory <= PurgeMaxStories /\ confirm_story(u, "public", 0, 0)
    \/ \E sid \in DOMAIN stories :
          stories[sid].deleted_at = Null /\ archive_story(stories[sid].user_id, sid)
    \/ \E sid \in DOMAIN stories :
          stories[sid].deleted_at = Null /\ delete_story(stories[sid].user_id, sid)
    \/ \E sid \in DOMAIN stories :
          stories[sid].deleted_at = Null /\ delete_story_from_archive(stories[sid].user_id, sid)
    \/ \E fails \in FailureSets : run_cleanup(fails)

SpecPurge == Init /\ [][NextPurge]_vars /\ WF_vars(run_cleanup({}))

\* deleted_at is set, the story is not highlighted, and 30 days have passed
RetentionOver(sid) ==
    /\ Exists(sid)
    /\ stories[sid].deleted_at # Null
    /\ ~stories[sid].highlight
    /\ ~InRetention(stories[sid], now)

\* C34: with sweeps running repeatedly and storage deletions eventually
\* succeeding, every story that was soft-deleted, is not highlighted and is
\* not restored is eventually purged once 30 days have passed since
\* deleted_at, whatever the owner's auto-archive setting and whatever the
\* story's archive flag.
SoftDeletedEventuallyPurged ==
    \A sid \in 1..PurgeMaxStories :
        RetentionOver(sid) ~>
            (~Exists(sid) \/ stories[sid].deleted_at = Null \/ stories[sid].highlight)

\* ------------------------------------------------------ get_recently_deleted
\* the stories of user u with deleted_at set and not older than 30 days
get_recently_deleted(u) ==
    /\ last' = [Resp("get_recently_deleted", u, u, 200, "ok") EXCEPT
                  !.returned = {sid \in DOMAIN stories :
                                   /\ stories[sid].user_id = u
                                   /\ stories[sid].deleted_at # Null
                                   /\ stories[sid].deleted_at[1] >= now - RetentionDays}]
    /\ UNCHANGED <<now, ticks, users, stories, nextStory, highlights, nextHl, objects>>
    /\ UNCHANGED <<followers, close_friends, reactions, comments, responses, sessions>>

\* ------------------------------------------- permanent delete specification
\* Stories of both users are archived, soft-deleted from the stories view or
\* from the archive, deleted from the recently-deleted view, listed by their
\* owner in the three views, and swept.
NextPermanent ==
    \/ ticks < PermMaxTicks /\ Tick(LifetimeDays)
    \/ \E u \in Users : nextStory <= PermMaxStories /\ confirm_story(u, "public", 0, 0)
    \/ \E sid \in DOMAIN stories : archive_story(stories[sid].user_id, sid)
    \/ \E sid \in DOMAIN stories : delete_story(stories[sid].user_id, sid)
    \/ \E sid \in DOMAIN stories : delete_story_from_archive(stories[sid].user_id, sid)
    \/ \E sid \in DOMAIN stories :
          delete_story_from_recently_deleted(stories[sid].user_id, sid)
    \/ \E u \in Users : list_user_stories(u, u)
    \/ \E u \in Users : list_archived_stories(u)
    \/ \E u \in Users : get_recently_deleted(u)
    \/ \E fails \in FailureSets : run_cleanup(fails)

SpecPermanent == Init /\ [][NextPermanent]_vars

\* the request before this step deleted a story from the recently-deleted
\* view, and the story is not highlighted
PermanentlyDeleted ==
    /\ last.op = "delete_story_from_recently_deleted" /\ last.status = 200
    /\ ~stories[last.target].highlight

Listings == {"list_user_stories", "list_archived_stories", "get_recently_deleted"}

\* C35: after delete_story_from_recently_deleted by the owner on a
\* soft-deleted story that is not highlighted, the story is returned by no
\* listing (stories, archive, recently deleted) any more and is purged by the
\* next sweep with working storage, also when the story had been soft-deleted
\* out of the archive (archive = true).
PermanentDeleteSticks ==
    [][PermanentlyDeleted =>
          /\ last'.op \in Listings => last.target \notin last'.returned
          /\ (last'.op = "run_cleanup" /\ last'.fails = {})
                 => last.target \notin DOMAIN stories']_vars

\* ---------------------------------------------------- deletion specification
\* Stories of both users are archived, soft-deleted from the stories view or
\* from the archive, restored, deleted from the recently-deleted view and
\* swept, in any order, by their owners.
NextDeleted ==
    \/ ticks < ExpMaxTicks /\ Tick(LifetimeDays)
    \/ \E u \in Users : nextStory <= ExpMaxStories /\ confirm_story(u, "public", 0, 0)
    \/ \E sid \in DOMAIN stories : archive_story(stories[sid].user_id, sid)
    \/ \E sid \in DOMAIN stories : delete_story(stories[sid].user_id, sid)
    \/ \E sid \in DOMAIN stories : delete_story_from_archive(stories[sid].user_id, sid)
    \/ \E sid \in DOMAIN stories :
          restore_story_from_recently_deleted(stories[sid].user_id, sid)
    \/ \E sid \in DOMAIN stories :
          delete_story_from_recently_deleted(stories[sid].user_id, sid)
    \/ run_cleanup({})

SpecDeleted == Init /\ [][NextDeleted]_vars

\* C36: in every reachable state every story with deleted_at set has
\* expires_at earlier than deleted_at, after any sequence of delete_story,
\* delete_story_from_archive, restore_story_from_recently_deleted,
\* delete_story_from_recently_deleted, archive_story and sweeps.
DeletedImpliesExpired ==
    \A sid \in DOMAIN stories :
        stories[sid].deleted_at # Null =>
            stories[sid].expires_at < stories[sid].deleted_at[1]

\* a story was soft-deleted a day or more after it was posted
DeletedImpliesExpiredWitness ==
    /\ last.op \in {"delete_story", "delete_story_from_archive"} /\ last.status = 200
    /\ stories[last.target].deleted_at # Null
    /\ stories[last.target].created_at < now

====
